---- MODULE Spec2Model ----
(***************************************************************************)
(* Model of the charter-validation test harness of locki-io/ocapistaine:   *)
(* app/mockup/levenshtein.py, app/mockup/generator.py,                     *)
(* app/mockup/storage.py, app/mockup/batch_view.py and                     *)
(* app/processors/mockup_processor.py.                                     *)
(*                                                                         *)
(* Texts are sequences of one-character strings.  Python's None is the     *)
(* string "None".  Fractions are pairs <<numerator, denominator>>.         *)
(***************************************************************************)
EXTENDS Integers, Sequences, FiniteSets, TLC

VARIABLES
    levA,           \* levenshtein_distance: argument s1
    levB,           \* levenshtein_distance: argument s2
    levOut,         \* levenshtein_distance: returned value (0 before the call)
    levDone,        \* whether the call has returned
    contributions,  \* ContributionGenerator.contributions
    file,           \* the items of contributions.json
    generated,      \* whether the generator has made its generation call
    ret,            \* the last generator call: its arguments and what it returned
    batch,          \* the contributions handed to a validation run
    calls,          \* what the classifier did on each item of the batch
    records,        \* the ValidationRecords the validation run produced
    results,        \* st.session_state["batch_results"], as <<id, result>> pairs
    latest,         \* the records of the store's "latest" hash
    dataset,        \* the items of the evaluation dataset
    exported,       \* the records the dataset's items were made from
    workflow,       \* the MockupWorkflowResult of the workflow
    stats,          \* what get_statistics returned
    test_results,   \* eval_results.test_results of the experiment
    experiment,     \* the ExperimentResult
    phase,          \* how far the validation pipeline has run
    metric_input,   \* the task result handed to the metrics' score methods
    metric_scores,  \* what the three score methods returned
    redis,          \* the Redis database: validation keys, date indexes, latest hash
    clock,          \* the time, in ticks: the timestamp of the next record
    store_ret,      \* the last MockupStorage call: its arguments and what it returned
    procs,          \* the MockupStorage calls in progress, command by command
    datasets,       \* DatasetManager._datasets
    split_ret,      \* the last create_train_val_test_split call and what it returned
    rng,            \* the state of Python's module-level random generator
    rand_ret,       \* the last two seeded calls of one function and what they returned
    loop            \* the while loop of an apply_distance call, pass by pass

levVars == <<levA, levB, levOut, levDone>>

genVars == <<contributions, file, generated, ret>>

valVars == <<batch, calls, records, results, latest, dataset, exported, workflow,
            stats, test_results, experiment, phase>>

metVars == <<metric_input, metric_scores>>

storeVars == <<redis, clock, store_ret, procs, datasets, split_ret>>

randVars == <<rng, rand_ret, loop>>

vars == <<levVars, genVars, valVars, metVars, storeVars, randVars>>

None == "None"

(***************************************************************************)
(* Bounds of the model                                                     *)
(***************************************************************************)
MaxLevLen == 3

LevAlphabet == {"a", "b"}

\* Op applied to the value of x: x is evaluated once, before Op is entered
Strict(Op(_), x) == CHOOSE v \in {Op(y) : y \in {x}} : TRUE

Min2(x, y) == IF x <= y THEN x ELSE y

Max2(x, y) == IF x >= y THEN x ELSE y

RECURSIVE StringsUpTo(_, _)
StringsUpTo(alphabet, n) ==
    IF n = 0 THEN {<<>>}
    ELSE LET shorter == StringsUpTo(alphabet, n - 1)
         IN  shorter \cup {Append(s, c) : s \in shorter, c \in alphabet}

LevStrings == StringsUpTo(LevAlphabet, MaxLevLen)

(***************************************************************************)
(* levenshtein.py: levenshtein_distance                                    *)
(***************************************************************************)
\* substitutions = previous_row[j] + (c1 != c2), with the comparison dropped
SubstCostAlwaysOne(c1, c2) == 1

\* (c1 != c2) as an integer
SubstCost(c1, c2) == IF c1 # c2 THEN 1 ELSE 0

\* The inner loop: current_row has n entries, the next one is for s2[n].
RECURSIVE LevInner(_, _, _, _)
LevInner(previous_row, c1, s2, current_row) ==
    LET n == Len(current_row)
    IN  IF n > Len(s2) THEN current_row
        ELSE LET insertions == previous_row[n + 1] + 1
                 deletions == current_row[n] + 1
                 substitutions == previous_row[n] + SubstCost(c1, s2[n])
                 Rest(row) == LevInner(previous_row, c1, s2, row)
             IN  Strict(Rest, Append(current_row,
                                     Min2(Min2(insertions, deletions), substitutions)))

\* The outer loop over s1, from its i-th character on (i counts from 1).
RECURSIVE LevOuter(_, _, _, _)
LevOuter(s1, s2, i, previous_row) ==
    IF i > Len(s1) THEN previous_row
    ELSE LET Rest(row) == LevOuter(s1, s2, i + 1, row)
         IN  Strict(Rest, LevInner(previous_row, s1[i], s2, <<i>>))

\* The body of levenshtein_distance once len(s1) >= len(s2).
LevOrdered(s1, s2) ==
    IF Len(s2) = 0 THEN Len(s1)
    ELSE LET last == LevOuter(s1, s2, 1, [j \in 1..(Len(s2) + 1) |-> j - 1])
         IN  last[Len(last)]

levenshtein_distance(s1, s2) ==
    IF Len(s1) < Len(s2) THEN LevOrdered(s2, s1) ELSE LevOrdered(s1, s2)

(***************************************************************************)
(* The edit distance by its definition: the length of a shortest chain of  *)
(* single-character insertions, deletions and substitutions.               *)
(***************************************************************************)
\* an insertion that puts the character in three times
InsertThriceAt(s, p, c) == SubSeq(s, 1, p - 1) \o <<c, c, c>> \o SubSeq(s, p, Len(s))

InsertAt(s, p, c) == SubSeq(s, 1, p - 1) \o <<c>> \o SubSeq(s, p, Len(s))

DeleteAt(s, p) == SubSeq(s, 1, p - 1) \o SubSeq(s, p + 1, Len(s))

ReplaceAt(s, p, c) == [s EXCEPT ![p] = c]

OneEdit(s, alphabet) ==
    {InsertAt(s, p, c) : p \in 1..(Len(s) + 1), c \in alphabet}
    \cup {DeleteAt(s, p) : p \in 1..Len(s)}
    \cup {ReplaceAt(s, p, c) : p \in 1..Len(s), c \in alphabet}

\* Breadth-first search from the set S; a shortest chain never needs a string
\* longer than the longer of its two ends, so longer strings are pruned.
RECURSIVE EditSearch(_, _, _, _, _)
EditSearch(S, b, k, alphabet, maxLen) ==
    IF b \in S THEN k
    ELSE EditSearch(S \cup {t \in UNION {OneEdit(s, alphabet) : s \in S} : Len(t) <= maxLen},
                    b, k + 1, alphabet, maxLen)

MinEdits(a, b) ==
    EditSearch({a}, b, 0, {a[i] : i \in 1..Len(a)} \cup {b[i] : i \in 1..Len(b)},
               Max2(Len(a), Len(b)))

(***************************************************************************)
(* Python's module-level random generator.  Its state is a number; every   *)
(* random call reads the state and advances it.  The Mersenne Twister is   *)
(* replaced by a multiplicative generator of full period over RngStates.   *)
(***************************************************************************)
RngModulus == 31

RngStates == 1..(RngModulus - 1)

NextRng(r) == (r * 3) % RngModulus

\* random.choice(seq)
RandChoice(seq, r) == seq[(r % Len(seq)) + 1]

\* random.randint(lo, hi), both ends included
RandInt(lo, hi, r) == lo + (r % (hi - lo + 1))

\* random.random() < 0.7
RandLetterBranch(r) == (r % 10) < 7

(***************************************************************************)
(* levenshtein.py: apply_distance                                          *)
(***************************************************************************)
\* The character sets of apply_distance, cut to their first characters.
vowels == <<"a", "e">>

consonants == <<"b", "c">>

punctuation == <<".">>

LowerLetters == <<"a", "b", "c", "d", "e", "f", "g", "h", "i", "j", "k", "l", "m",
                  "n", "o", "p", "q", "r", "s", "t", "u", "v", "w", "x", "y", "z">>

UpperLetters == <<"A", "B", "C", "D", "E", "F", "G", "H", "I", "J", "K", "L", "M",
                  "N", "O", "P", "Q", "R", "S", "T", "U", "V", "W", "X", "Y", "Z">>

isupper(c) == \E i \in 1..Len(UpperLetters) : UpperLetters[i] = c

lower(c) ==
    IF isupper(c)
    THEN LowerLetters[CHOOSE i \in 1..Len(UpperLetters) : UpperLetters[i] = c]
    ELSE c

upper(c) ==
    IF \E i \in 1..Len(LowerLetters) : LowerLetters[i] = c
    THEN UpperLetters[CHOOSE i \in 1..Len(LowerLetters) : LowerLetters[i] = c]
    ELSE c

InSeq(c, seq) == \E i \in 1..Len(seq) : seq[i] = c

\* str.replace(c, ""): the sequence without every occurrence of c
RECURSIVE Without(_, _)
Without(seq, c) ==
    IF seq = <<>> THEN <<>>
    ELSE IF Head(seq) = c THEN Without(Tail(seq), c)
         ELSE <<Head(seq)>> \o Without(Tail(seq), c)

\* "delete" applies only to more than this many characters
MinDeleteLen == 10

\* The longest run of the while loop that the model follows; a call that
\* needs more attempts is a call that has not returned.
MaxAttempts == 40

MutationKinds == <<"insert", "delete", "substitute", "swap">>

\* One pass of the while loop of apply_distance on state
\* [chars, applied, rng]; pos counts from 0 as in the code.
MutationAttempt(st, mutation_type) ==
    LET r1 == st.rng
        mixed == mutation_type = "mixed"
        mutation == IF mixed THEN RandChoice(MutationKinds, r1) ELSE mutation_type
        r2 == IF mixed THEN NextRng(r1) ELSE r1
        pos == RandInt(0, Max2(0, Len(st.chars) - 1), r2)
        r3 == NextRng(r2)
        chars == st.chars
    IN  IF mutation = "delete" /\ Len(chars) > MinDeleteLen
        THEN [chars |-> DeleteAt(chars, pos + 1), applied |-> st.applied + 1, rng |-> r3]
        ELSE IF mutation = "insert"
        THEN LET char == IF RandLetterBranch(r3)
                         THEN RandChoice(vowels \o consonants, NextRng(r3))
                         ELSE RandChoice(punctuation \o <<" ", " ", " ">>, NextRng(r3))
             IN  [chars |-> InsertAt(chars, pos + 1, char),
                  applied |-> st.applied + 1,
                  rng |-> NextRng(NextRng(r3))]
        ELSE IF mutation = "substitute"
        THEN LET original == chars[pos + 1]
                 new_char == IF InSeq(lower(original), vowels)
                             THEN RandChoice(Without(vowels, lower(original)), r3)
                             ELSE IF InSeq(lower(original), consonants)
                             THEN RandChoice(Without(consonants, lower(original)), r3)
                             ELSE RandChoice(vowels \o consonants, r3)
                 cased == IF isupper(original) THEN upper(new_char) ELSE new_char
             IN  [chars |-> ReplaceAt(chars, pos + 1, cased),
                  applied |-> st.applied + 1,
                  rng |-> NextRng(r3)]
        ELSE IF mutation = "swap" /\ Len(chars) > 1 /\ pos < Len(chars) - 1
        THEN [chars |-> [chars EXCEPT ![pos + 1] = chars[pos + 2],
                                      ![pos + 2] = chars[pos + 1]],
              applied |-> st.applied + 1,
              rng |-> r3]
        ELSE [chars |-> chars, applied |-> st.applied, rng |-> r3]

\* while mutations_applied < target_distance and len(chars) > 0
RECURSIVE MutationLoop(_, _, _, _)
MutationLoop(st, target_distance, mutation_type, fuel) ==
    IF ~(st.applied < target_distance /\ Len(st.chars) > 0)
    THEN [chars |-> st.chars, applied |-> st.applied, rng |-> st.rng, returned |-> TRUE]
    ELSE IF fuel = 0
    THEN [chars |-> st.chars, applied |-> st.applied, rng |-> st.rng, returned |-> FALSE]
    ELSE LET Rest(next) == MutationLoop(next, target_distance, mutation_type, fuel - 1)
         IN  Strict(Rest, MutationAttempt(st, mutation_type))

\* apply_distance(text, target_distance, mutation_type) without a seed, called
\* with the random generator in state r: the mutated text, the actual
\* distance, the generator's state afterwards, and whether the call returned.
apply_distance(text, target_distance, mutation_type, r) ==
    IF target_distance <= 0
    THEN [text |-> text, distance |-> 0, rng |-> r, returned |-> TRUE]
    ELSE LET out == MutationLoop([chars |-> text, applied |-> 0, rng |-> r],
                                 target_distance, mutation_type, MaxAttempts)
         IN  [text |-> out.chars,
              distance |-> levenshtein_distance(text, out.chars),
              rng |-> out.rng,
              returned |-> out.returned]

(***************************************************************************)
(* levenshtein.py: VIOLATION_PATTERNS and inject_violation                 *)
(***************************************************************************)
\* The keys of VIOLATION_PATTERNS in their order
ViolationTypes == <<"personal_attack", "off_topic", "non_constructive", "aggressive">>

\* The catalog: two phrases of each category, cut to their first three
\* characters.
VIOLATION_PATTERNS ==
    [personal_attack |-> << <<"c", "e", "t">>, <<"c", "e", "s">> >>,
     off_topic |-> << <<"d", "'", "a">>, <<"c", "o", "m">> >>,
     non_constructive |-> << <<"c", "'", "e">>, <<"t", "o", "u">> >>,
     aggressive |-> << <<"!", "!", "!">>, <<"H", "O", "N">> >>]

SentenceEnd == {".", "!", "?"}

Whitespace == {" "}

\* The end of the whitespace run that starts at position i
RECURSIVE RunEnd(_, _)
RunEnd(text, i) ==
    IF i + 1 <= Len(text) /\ text[i + 1] \in Whitespace THEN RunEnd(text, i + 1) ELSE i

\* re.split(r'(?<=[.!?])\s+', text): scanning from position i, with the
\* sentence that began at position start.
RECURSIVE SplitFrom(_, _, _)
SplitFrom(text, start, i) ==
    IF i > Len(text) THEN <<SubSeq(text, start, Len(text))>>
    ELSE IF text[i] \in Whitespace /\ i > 1 /\ text[i - 1] \in SentenceEnd
    THEN LET e == RunEnd(text, i)
         IN  <<SubSeq(text, start, i - 1)>> \o SplitFrom(text, e + 1, e + 1)
    ELSE SplitFrom(text, start, i + 1)

SplitSentences(text) == SplitFrom(text, 1, 1)

\* " ".join(parts)
RECURSIVE JoinSpace(_)
JoinSpace(parts) ==
    IF Len(parts) = 0 THEN <<>>
    ELSE IF Len(parts) = 1 THEN parts[1]
    ELSE parts[1] \o <<" ">> \o JoinSpace(Tail(parts))

\* an insertion that always puts x last
ListAppend(list, k, x) == list \o <<x>>

\* list.insert(k, x), k counting from 0
ListInsert(list, k, x) == SubSeq(list, 1, k) \o <<x>> \o SubSeq(list, k + 1, Len(list))

\* intensity < bound/10, intensity being the fraction <<num, den>>
IntensityBelow(intensity, tenths) == intensity[1] * 10 < tenths * intensity[2]

\* inject_violation(text, violation_type, intensity) without a seed, called
\* with the random generator in state r: the returned pair, the generator's
\* state afterwards, and whether the call raised (no path of the code does).
inject_violation(text, violation_type, intensity, r) ==
    IF violation_type \notin DOMAIN VIOLATION_PATTERNS
    THEN [text |-> text, tag |-> "unknown_violation", raised |-> FALSE, rng |-> r]
    ELSE LET patterns == VIOLATION_PATTERNS[violation_type]
             pattern == RandChoice(patterns, r)
             sentences == SplitSentences(text)
             modified ==
                 IF IntensityBelow(intensity, 3)
                 THEN text \o <<" ">> \o pattern \o <<".">>
                 ELSE IF IntensityBelow(intensity, 7)
                 THEN JoinSpace(ListInsert(sentences, Len(sentences) \div 2, pattern))
                 ELSE JoinSpace([sentences EXCEPT
                                   ![1] = pattern \o <<".", " ">> \o sentences[1]])
         IN  [text |-> modified, tag |-> violation_type, raised |-> FALSE,
              rng |-> NextRng(r)]

(***************************************************************************)
(* generator.py: MockContribution                                          *)
(***************************************************************************)
\* parent_id of an item that has no parent
NoId == <<>>

\* distance_from_parent of an item that has none
NoDistance == -1

\* len("**Constat factuel:**\n")
ConstatHeaderLen == 21

\* len("**Vos idées d'améliorations:**\n")
IdeesHeaderLen == 31

\* len("\n\n")
BodySeparatorLen == 2

\* len(self.body)
BodyLen(c) ==
    (IF c.constat_factuel # <<>> THEN ConstatHeaderLen + Len(c.constat_factuel) ELSE 0)
    + (IF c.constat_factuel # <<>> /\ c.idees_ameliorations # <<>>
       THEN BodySeparatorLen ELSE 0)
    + (IF c.idees_ameliorations # <<>> THEN IdeesHeaderLen + Len(c.idees_ameliorations)
       ELSE 0)

\* f"{self.constat_factuel} {self.idees_ameliorations}"
FullText(constat_factuel, idees_ameliorations) ==
    constat_factuel \o <<" ">> \o idees_ameliorations

full_text(c) == FullText(c.constat_factuel, c.idees_ameliorations)

\* generate_id: the digest of f"{constat}:{idees}:{category}".  The digest is
\* taken to be injective, so the id is the hashed content itself.
generate_id(constat_factuel, idees_ameliorations, category) ==
    constat_factuel \o <<":">> \o idees_ameliorations \o <<":", category>>

MockContribution(constat_factuel, idees_ameliorations, category, source, parent_id, distance_from_parent, expected_valid, violations_injected, mutation_type) ==
    [id |-> generate_id(constat_factuel, idees_ameliorations, category),
     category |-> category,
     constat_factuel |-> constat_factuel,
     idees_ameliorations |-> idees_ameliorations,
     source |-> source,
     parent_id |-> parent_id,
     distance_from_parent |-> distance_from_parent,
     expected_valid |-> expected_valid,
     violations_injected |-> violations_injected,
     mutation_type |-> mutation_type]

(***************************************************************************)
(* generator.py: ContributionGenerator                                     *)
(***************************************************************************)
\* add_contribution: the new item (the caller appends it)
add_contribution(constat_factuel, idees_ameliorations, category, expected_valid, source) ==
    MockContribution(constat_factuel, idees_ameliorations, category, source, NoId,
                     NoDistance, expected_valid, <<>>, None)

\* text_distance = levenshtein_distance(parent_text, derived_text), taken
\* before the violation is injected
DistanceBeforeInjection(parent, mutated_constat, mutated_idees, final_constat, final_idees) ==
    levenshtein_distance(full_text(parent), FullText(mutated_constat, mutated_idees))

\* text_distance = levenshtein_distance(parent_text, derived_text)
DerivedDistance(parent, mutated_constat, mutated_idees, final_constat, final_idees) ==
    levenshtein_distance(full_text(parent), FullText(final_constat, final_idees))

\* derive_contribution once both texts are mutated (m1, m2 are what the two
\* calls of apply_distance returned): the new item, the random generator's
\* state afterwards, whether the calls returned and whether one raised.
DeriveFrom(parent, m1, m2, inject_violation_type, violation_intensity) ==
    LET inject == inject_violation_type # None
        intoIdees == m2.text # <<>>
        Build(v) ==
            LET mutated_constat == IF inject /\ ~intoIdees THEN v.text ELSE m1.text
                mutated_idees == IF inject /\ intoIdees THEN v.text ELSE m2.text
                violations_injected == IF inject THEN <<v.tag>> ELSE <<>>
                expected_valid == IF violations_injected # <<>> THEN "False"
                                  ELSE parent.expected_valid
            IN  [item |-> MockContribution(
                              mutated_constat, mutated_idees, parent.category,
                              "derived", parent.id,
                              DerivedDistance(parent, m1.text, m2.text,
                                              mutated_constat, mutated_idees),
                              expected_valid, violations_injected, None),
                 rng |-> v.rng,
                 returned |-> m1.returned /\ m2.returned,
                 raised |-> v.raised]
    IN  Strict(Build,
               IF inject
               THEN inject_violation(IF intoIdees THEN m2.text ELSE m1.text,
                                     inject_violation_type, violation_intensity, m2.rng)
               ELSE [text |-> <<>>, tag |-> None, raised |-> FALSE, rng |-> m2.rng])

derive_contribution(parent, target_distance, mutation_type, inject_violation_type, violation_intensity, r) ==
    LET Second(m1) ==
            LET Third(m2) == DeriveFrom(parent, m1, m2, inject_violation_type,
                                        violation_intensity)
            IN  Strict(Third, apply_distance(parent.idees_ameliorations,
                                             target_distance \div 2, mutation_type,
                                             m1.rng))
    IN  Strict(Second, apply_distance(parent.constat_factuel, target_distance \div 2,
                                      mutation_type, r))

\* progress > 0.4 read as progress >= 0.4
ViolationStepInclusive(i, num_variations) == 10 * (i + 1) >= 4 * num_variations

\* progressive_violations and progress > 0.4, progress = (i + 1) / num_variations;
\* the float comparison agrees with the exact one for num_variations < 10
ViolationStep(i, num_variations) == 10 * (i + 1) > 4 * num_variations

\* v_idx = min(int((progress - 0.4) / 0.6 * len(violation_types)), len - 1)
\* and violation_types[v_idx]; exact for num_variations < 10
SeriesViolationType(i, num_variations) ==
    LET v_idx == ((10 * (i + 1) - 4 * num_variations) * Len(ViolationTypes))
                 \div (6 * num_variations)
    IN  ViolationTypes[Min2(v_idx, Len(ViolationTypes) - 1) + 1]

\* max_distance = int(len(parent.body) * max_distance_ratio)
MaxDistance(parent, ratio_pct) == (BodyLen(parent) * ratio_pct) \div 100

\* target_distance = int(max_distance * progress), progress = (i + 1) / n;
\* the float product agrees with the exact one for num_variations < 10
TargetDistance(max_distance, i, num_variations) ==
    (max_distance * (i + 1)) \div num_variations

\* Step i of the loop of generate_variation_series (i counts from 0) on
\* acc = [items, rng, returned]: the list derived so far, the state of the
\* random generator and whether every call so far returned.
VariationStep(parent, num_variations, max_distance, progressive_violations, i, acc) ==
    LET target_distance == TargetDistance(max_distance, i, num_variations)
        inject_violation_type ==
            IF progressive_violations /\ ViolationStep(i, num_variations)
            THEN SeriesViolationType(i, num_variations)
            ELSE None
        Result(d) == [items |-> IF d.returned THEN Append(acc.items, d.item)
                                ELSE acc.items,
                      rng |-> d.rng,
                      returned |-> d.returned]
    IN  Strict(Result, derive_contribution(parent, target_distance, "mixed",
                                           inject_violation_type,
                                           <<i + 1, num_variations>>, acc.rng))

\* for i in range(num_variations), from step i on
RECURSIVE VariationLoop(_, _, _, _, _, _)
VariationLoop(parent, num_variations, max_distance, progressive_violations, i, acc) ==
    IF i >= num_variations \/ ~acc.returned THEN acc
    ELSE LET Rest(next) == VariationLoop(parent, num_variations, max_distance,
                                         progressive_violations, i + 1, next)
         IN  Strict(Rest, VariationStep(parent, num_variations, max_distance,
                                        progressive_violations, i, acc))

\* generate_variation_series; max_distance_ratio is ratio_pct / 100.  The
\* returned list; every item of it was also appended to the collection.
generate_variation_series(parent, num_variations, ratio_pct, progressive_violations, r) ==
    VariationLoop(parent, num_variations, MaxDistance(parent, ratio_pct),
                  progressive_violations, 0,
                  [items |-> <<>>, rng |-> r, returned |-> TRUE])

(***************************************************************************)
(* llm_mutations.py: LLMMutator.mutate, and                                *)
(* generator.py: generate_llm_variation_series                             *)
(***************************************************************************)
\* What the text-rewriting capability answers when it does not fail: here
\* the text with one more character, whatever the mutation type.
Rewritten(text, mutation_type) == text \o <<"e">>

\* a mutate that hands back no text when the capability raised
mutate_blank(text, mutation_type, fails) ==
    IF fails
    THEN [original |-> text, mutated |-> <<>>, success |-> FALSE, error |-> "error"]
    ELSE [original |-> text, mutated |-> Rewritten(text, mutation_type),
          success |-> TRUE, error |-> None]

\* mutate(text, mutation_type): fails is whether the capability raised
mutate(text, mutation_type, fails) ==
    IF fails
    THEN [original |-> text, mutated |-> text, success |-> FALSE, error |-> "error"]
    ELSE [original |-> text, mutated |-> Rewritten(text, mutation_type),
          success |-> TRUE, error |-> None]

mutation_sequence(include_violations) ==
    IF include_violations
    THEN <<"paraphrase", "orthographic", "semantic_shift", "subtle_violation",
           "aggressive", "off_topic">>
    ELSE <<"paraphrase", "orthographic", "paraphrase", "orthographic",
           "semantic_shift">>

\* One step of generate_all and the MockContribution made of its result;
\* failing is the set of fields whose rewrite fails at this step.
LlmStep(parent, i, include_violations, failing) ==
    LET seq == mutation_sequence(include_violations)
        mutation_type == seq[(i % Len(seq)) + 1]
        constat_result == mutate(parent.constat_factuel, mutation_type,
                                 "constat" \in failing)
        idees_result == mutate(parent.idees_ameliorations, mutation_type,
                               "idees" \in failing)
        mutated_idees == IF parent.idees_ameliorations # <<>>
                         THEN (IF idees_result.success THEN idees_result.mutated
                               ELSE parent.idees_ameliorations)
                         ELSE <<>>
        mutated_constat == IF constat_result.success THEN constat_result.mutated
                           ELSE parent.constat_factuel
        expected_valid == IF mutation_type \in {"paraphrase", "orthographic"} THEN "True"
                          ELSE IF mutation_type = "semantic_shift" THEN None
                          ELSE "False"
        violations_injected ==
            IF mutation_type \in {"subtle_violation", "aggressive", "off_topic"}
            THEN <<mutation_type>> ELSE <<>>
    IN  MockContribution(mutated_constat, mutated_idees, parent.category, "derived",
                         parent.id,
                         DerivedDistance(parent, mutated_constat, mutated_idees,
                                         mutated_constat, mutated_idees),
                         expected_valid, violations_injected, mutation_type)

\* generate_llm_variation_series; oracle[i + 1] is the set of fields whose
\* rewrite fails at step i.
generate_llm_variation_series(parent, num_variations, include_violations, oracle) ==
    [k \in 1..num_variations |-> LlmStep(parent, k - 1, include_violations, oracle[k])]

(***************************************************************************)
(* mockup_processor.py: MockupProcessor._save_to_json                      *)
(***************************************************************************)
\* {c.id for c in generator.contributions}
IdsOf(items) == {items[k].id : k \in 1..Len(items)}

\* The loop of _save_to_json: existing_ids is computed once, before it
RECURSIVE SaveLoop(_, _, _)
SaveLoop(loaded, existing_ids, contribs) ==
    IF contribs = <<>> THEN loaded
    ELSE SaveLoop(IF Head(contribs).id \notin existing_ids
                  THEN Append(loaded, Head(contribs)) ELSE loaded,
                  existing_ids, Tail(contribs))

\* _save_to_json(contributions) on a file holding `loaded`: the file afterwards
save_to_json(loaded, contribs) == SaveLoop(loaded, IdsOf(loaded), contribs)

(***************************************************************************)
(* generator.py: MockContribution.title, MockContribution.body             *)
(***************************************************************************)
TitleLimit == 80

\* title: the first text there is, cut to 77 characters and "..." when long
title(c) ==
    LET text == IF c.constat_factuel # <<>> THEN c.constat_factuel
                ELSE c.idees_ameliorations
    IN  IF Len(text) > TitleLimit
        THEN SubSeq(text, 1, TitleLimit - 3) \o <<".", ".", ".">>
        ELSE text

\* body: each header is kept as one element of the sequence
body(c) ==
    LET constat == IF c.constat_factuel # <<>>
                   THEN <<"**Constat factuel:**\n">> \o c.constat_factuel ELSE <<>>
        idees == IF c.idees_ameliorations # <<>>
                 THEN <<"**Vos idees d'ameliorations:**\n">> \o c.idees_ameliorations
                 ELSE <<>>
    IN  IF constat # <<>> /\ idees # <<>> THEN constat \o <<"\n\n">> \o idees
        ELSE constat \o idees

(***************************************************************************)
(* The validation function (validate_func).  A call raises or returns a    *)
(* dict; `keys` are the keys the dict has.  Python's True and False are    *)
(* the strings "True" and "False"; confidences are hundredths.             *)
(***************************************************************************)
\* dict.get(key, default)
DictGet(d, key, default) == IF key \in d.keys THEN d[key] ELSE default

\* bool(x) for x in True, False, None
Truthy(x) == x = "True"

\* the call raises
Raises ==
    [raises |-> TRUE, keys |-> {}, success |-> None, is_valid |-> None,
     violations |-> <<>>, confidence |-> 0, error |-> "error"]

\* front.py _validate_with_forseti: the agent's answer
Verdict(is_valid, violations, confidence) ==
    [raises |-> FALSE, keys |-> {"success", "is_valid", "violations", "confidence"},
     success |-> "True", is_valid |-> is_valid, violations |-> violations,
     confidence |-> confidence, error |-> None]

\* front.py _validate_with_forseti: the agent failed
ErrorDict ==
    [raises |-> FALSE, keys |-> {"success", "error"}, success |-> "False",
     is_valid |-> None, violations |-> <<>>, confidence |-> 0, error |-> "error"]

\* results[contrib.id] = {"success": False, "error": str(e)}
CaughtError == ErrorDict

(***************************************************************************)
(* storage.py: ValidationRecord                                            *)
(***************************************************************************)
Today == "today"

ValidationRecord(contrib, is_valid, violations, confidence, reasoning, distance_from_parent) ==
    [id |-> contrib.id,
     date |-> Today,
     title |-> title(contrib),
     body |-> body(contrib),
     category |-> contrib.category,
     constat_factuel |-> contrib.constat_factuel,
     idees_ameliorations |-> contrib.idees_ameliorations,
     is_valid |-> is_valid,
     violations |-> violations,
     confidence |-> confidence,
     reasoning |-> reasoning,
     source |-> contrib.source,
     expected_valid |-> contrib.expected_valid,
     parent_id |-> contrib.parent_id,
     distance_from_parent |-> distance_from_parent,
     violations_injected |-> contrib.violations_injected]

\* an expected_output built from the ground truth instead of the verdict
ExpectedOutputOfTruth(r) ==
    [keys |-> {"is_valid", "violations", "confidence"},
     is_valid |-> r.expected_valid, violations |-> r.violations, confidence |-> r.confidence]

\* to_opik_item
ExpectedOutputOfVerdict(r) ==
    [keys |-> {"is_valid", "violations", "confidence"},
     is_valid |-> r.is_valid, violations |-> r.violations, confidence |-> r.confidence]

to_opik_item(r) ==
    [input |-> [title |-> r.title, body |-> r.body, category |-> r.category,
                constat_factuel |-> r.constat_factuel,
                idees_ameliorations |-> r.idees_ameliorations],
     expected_output |-> ExpectedOutputOfVerdict(r),
     metadata |-> [keys |-> {"id", "date", "source", "expected_valid", "parent_id",
                             "violations_injected"},
                   id |-> r.id, date |-> r.date, source |-> r.source,
                   expected_valid |-> r.expected_valid, parent_id |-> r.parent_id,
                   violations_injected |-> r.violations_injected]]

\* matches_expected
matches_expected(r) ==
    IF r.expected_valid = None THEN None
    ELSE IF r.is_valid = r.expected_valid THEN "True" ELSE "False"

(***************************************************************************)
(* Fractions <<numerator, denominator>>; a figure that is None has         *)
(* denominator 0.                                                          *)
(***************************************************************************)
NoFigure == <<0, 0>>

IsNoFigure(f) == f[2] = 0

FracMul(a, b) == <<a[1] * b[1], a[2] * b[2]>>

FracAdd(a, b) == <<a[1] * b[2] + b[1] * a[2], a[2] * b[2]>>

FracDiv(a, b) == <<a[1] * b[2], a[2] * b[1]>>

\* bool(x) of a float or None
FigureTruthy(f) == f[2] # 0 /\ f[1] # 0

\* two figures are both None or the same number
SameFigure(a, b) ==
    \/ a[2] = 0 /\ b[2] = 0
    \/ a[2] # 0 /\ b[2] # 0 /\ a[1] * b[2] = b[1] * a[2]

\* the number of positions of a sequence that satisfy a test
CountIf(seq, Test(_)) == Cardinality({k \in 1..Len(seq) : Test(seq[k])})

(***************************************************************************)
(* mockup_processor.py: MockupProcessor                                    *)
(***************************************************************************)
\* _run_validation, loop body: the record made from what the call returned
RecordOfResult(contrib, result) ==
    ValidationRecord(contrib,
                     DictGet(result, "is_valid", "True"),
                     DictGet(result, "violations", <<>>),
                     DictGet(result, "confidence", 0),
                     "",
                     contrib.distance_from_parent)

RECURSIVE ValidationLoop(_, _, _, _)
ValidationLoop(contribs, outcomes, i, acc) ==
    IF i > Len(contribs) THEN acc
    ELSE IF outcomes[i].raises
         THEN ValidationLoop(contribs, outcomes, i + 1, acc)
         ELSE ValidationLoop(contribs, outcomes, i + 1,
                             Append(acc, RecordOfResult(contribs[i], outcomes[i])))

\* a validation that stops at the first call that raises
run_validation_aborting(contribs, outcomes) ==
    LET raising == {i \in 1..Len(contribs) : outcomes[i].raises}
        last == IF raising = {} THEN Len(contribs)
                ELSE (CHOOSE i \in raising : \A j \in raising : i <= j) - 1
    IN  ValidationLoop(SubSeq(contribs, 1, last), SubSeq(outcomes, 1, last), 1, <<>>)

\* _run_validation
run_validation(contribs, outcomes) == ValidationLoop(contribs, outcomes, 1, <<>>)

\* _contributions_to_records
contributions_to_records(contribs) ==
    [k \in 1..Len(contribs) |->
        ValidationRecord(contribs[k],
                         IF contribs[k].expected_valid # None
                         THEN contribs[k].expected_valid ELSE "True",
                         <<>>, 0, "Not validated", NoDistance)]

\* run_workflow, the figures of the validation step
WorkflowResult(validation_results) ==
    LET validations_run == Len(validation_results)
        IsValid(r) == Truthy(r.is_valid)
        Matches(r) == matches_expected(r) = "True"
        Known(r) == r.expected_valid # None
        valid_count == CountIf(validation_results, IsValid)
        matches == CountIf(validation_results, Matches)
        with_expected == CountIf(validation_results, Known)
    IN  [validations_run |-> validations_run,
         valid_count |-> valid_count,
         invalid_count |-> validations_run - valid_count,
         matches_expected |-> matches,
         accuracy |-> IF validations_run > 0 /\ with_expected > 0
                      THEN <<matches, with_expected>> ELSE NoFigure]

\* MockupWorkflowResult()
NoWorkflowResult ==
    [validations_run |-> 0, valid_count |-> 0, invalid_count |-> 0,
     matches_expected |-> 0, accuracy |-> NoFigure]

\* _export_to_dataset: items = [r.to_opik_item() for r in records]
export_to_dataset(recs) == [k \in 1..Len(recs) |-> to_opik_item(recs[k])]

(***************************************************************************)
(* storage.py: MockupStorage, the "latest" hash in insertion order         *)
(***************************************************************************)
\* hset(LATEST, record.id, ...)
HSet(hash, record) ==
    IF \E k \in 1..Len(hash) : hash[k].id = record.id
    THEN [k \in 1..Len(hash) |-> IF hash[k].id = record.id THEN record ELSE hash[k]]
    ELSE Append(hash, record)

RECURSIVE save_batch(_, _)
save_batch(hash, recs) ==
    IF recs = <<>> THEN hash
    ELSE save_batch(Strict(LAMBDA h : h, HSet(hash, Head(recs))), Tail(recs))

\* get_statistics
get_statistics(recs) ==
    IF recs = <<>> THEN [count |-> 0, valid_count |-> 0, invalid_count |-> 0,
                         with_expected |-> 0, matches_expected |-> 0,
                         accuracy |-> NoFigure]
    ELSE
        LET IsValid(r) == Truthy(r.is_valid)
            Known(r) == r.expected_valid # None
            Matches(r) == Known(r) /\ Truthy(matches_expected(r))
            valid_count == CountIf(recs, IsValid)
            with_expected == CountIf(recs, Known)
            matches == CountIf(recs, Matches)
        IN  [count |-> Len(recs),
             valid_count |-> valid_count,
             invalid_count |-> Len(recs) - valid_count,
             with_expected |-> with_expected,
             matches_expected |-> matches,
             accuracy |-> IF with_expected > 0 THEN <<matches, with_expected>>
                          ELSE NoFigure]

NoStatistics ==
    [count |-> 0, valid_count |-> 0, invalid_count |-> 0, with_expected |-> 0,
     matches_expected |-> 0, accuracy |-> NoFigure]

(***************************************************************************)
(* batch_view.py: _run_batch_validation                                    *)
(***************************************************************************)
\* results[contrib.id] = result
DictSet(pairs, key, value) ==
    IF \E k \in 1..Len(pairs) : pairs[k][1] = key
    THEN [k \in 1..Len(pairs) |-> IF pairs[k][1] = key THEN <<key, value>> ELSE pairs[k]]
    ELSE Append(pairs, <<key, value>>)

RECURSIVE BatchLoop(_, _, _, _)
BatchLoop(contribs, outcomes, i, acc) ==
    IF i > Len(contribs) THEN acc
    ELSE
        LET result == outcomes[i]
            next ==
                IF result.raises
                THEN [acc EXCEPT !.results = DictSet(@, contribs[i].id, CaughtError)]
                ELSE [results |-> DictSet(acc.results, contribs[i].id, result),
                      records_to_save |->
                          IF Truthy(DictGet(result, "success", None))
                          THEN Append(acc.records_to_save,
                                      RecordOfResult(contribs[i], result))
                          ELSE acc.records_to_save]
        IN  BatchLoop(contribs, outcomes, i + 1, Strict(LAMBDA a : a, next))

run_batch_validation(contribs, outcomes) ==
    BatchLoop(contribs, outcomes, 1, [results |-> <<>>, records_to_save |-> <<>>])

(***************************************************************************)
(* mockup_processor.py: run_experiment and _calculate_experiment_scores    *)
(***************************************************************************)
\* evaluation_task: the test result of one dataset item
evaluation_task(dataset_item, validation_result) ==
    [output |-> [keys |-> {"is_valid", "violations", "confidence"},
                 is_valid |-> DictGet(validation_result, "is_valid", "True"),
                 violations |-> DictGet(validation_result, "violations", <<>>),
                 confidence |-> DictGet(validation_result, "confidence", 0)],
     expected_output |-> dataset_item.expected_output,
     metadata |-> dataset_item.metadata]

\* the confusion-matrix cell of an item, with the valid items as the
\* positive class
ConfusionCellValidPositive(expected_valid, actual_valid) ==
    IF Truthy(expected_valid)
    THEN (IF Truthy(actual_valid) THEN "true_positives" ELSE "false_negatives")
    ELSE (IF ~Truthy(actual_valid) THEN "true_negatives" ELSE "false_positives")

\* the confusion-matrix cell of an item (invalid = positive class)
ConfusionCell(expected_valid, actual_valid) ==
    IF ~Truthy(expected_valid)
    THEN (IF ~Truthy(actual_valid) THEN "true_positives" ELSE "false_negatives")
    ELSE (IF Truthy(actual_valid) THEN "true_negatives" ELSE "false_positives")

\* ExperimentResult()
NoExperiment ==
    [charter_accuracy |-> NoFigure, violation_detection |-> NoFigure,
     confidence_calibration |-> NoFigure,
     true_positives |-> 0, true_negatives |-> 0, false_positives |-> 0,
     false_negatives |-> 0,
     precision |-> NoFigure, recall |-> NoFigure, f1_score |-> NoFigure]

\* the sums and lengths of accuracy_scores, violation_scores and
\* calibration_scores (calibration in hundredths), and the four cells
NoScores ==
    [accuracy_sum |-> 0, accuracy_len |-> 0, violation_sum |-> 0, violation_len |-> 0,
     calibration_sum |-> 0, calibration_len |-> 0,
     true_positives |-> 0, true_negatives |-> 0, false_positives |-> 0,
     false_negatives |-> 0]

\* _calculate_experiment_scores, loop body
ScoreStep(acc, test_result) ==
    LET output == test_result.output
        expected == test_result.expected_output
        metadata == test_result.metadata
        actual_valid == DictGet(output, "is_valid", "True")
        expected_valid == DictGet(expected, "is_valid", "True")
        cell == ConfusionCell(expected_valid, actual_valid)
        violations_injected == DictGet(metadata, "violations_injected", <<>>)
        violations_found == DictGet(output, "violations", <<>>)
        confidence == DictGet(output, "confidence", 50)
    IN  [accuracy_sum |-> acc.accuracy_sum
                          + (IF actual_valid = expected_valid THEN 1 ELSE 0),
         accuracy_len |-> acc.accuracy_len + 1,
         violation_sum |-> acc.violation_sum
                           + (IF violations_injected # <<>>
                                 /\ (violations_found # <<>> \/ ~Truthy(actual_valid))
                              THEN 1 ELSE 0),
         violation_len |-> acc.violation_len
                           + (IF violations_injected # <<>> THEN 1 ELSE 0),
         calibration_sum |-> acc.calibration_sum
                             + (IF actual_valid = expected_valid THEN confidence
                                ELSE 100 - confidence),
         calibration_len |-> acc.calibration_len + 1,
         true_positives |-> acc.true_positives
                            + (IF cell = "true_positives" THEN 1 ELSE 0),
         true_negatives |-> acc.true_negatives
                            + (IF cell = "true_negatives" THEN 1 ELSE 0),
         false_positives |-> acc.false_positives
                             + (IF cell = "false_positives" THEN 1 ELSE 0),
         false_negatives |-> acc.false_negatives
                             + (IF cell = "false_negatives" THEN 1 ELSE 0)]

RECURSIVE ScoreLoop(_, _, _)
ScoreLoop(results_, i, acc) ==
    IF i > Len(results_) THEN acc
    ELSE ScoreLoop(results_, i + 1, Strict(LAMBDA a : a, ScoreStep(acc, results_[i])))

\* a ratio that reads 0 when its denominator is 0
RatioOrZero(numerator, denominator) ==
    IF denominator > 0 THEN <<numerator, denominator>> ELSE <<0, 1>>

\* if tp + fp > 0: result.precision = tp / (tp + fp), else it stays None
RatioOrNone(numerator, denominator) ==
    IF denominator > 0 THEN <<numerator, denominator>> ELSE NoFigure

\* _calculate_experiment_scores
calculate_experiment_scores(results_) ==
    LET s == Strict(LAMBDA a : a, ScoreLoop(results_, 1, NoScores))
        tp == s.true_positives
        fp == s.false_positives
        fn == s.false_negatives
        precision == RatioOrNone(tp, tp + fp)
        recall == RatioOrNone(tp, tp + fn)
    IN  [charter_accuracy |-> IF s.accuracy_len > 0
                              THEN <<s.accuracy_sum, s.accuracy_len>> ELSE NoFigure,
         violation_detection |-> IF s.violation_len > 0
                                 THEN <<s.violation_sum, s.violation_len>>
                                 ELSE NoFigure,
         confidence_calibration |-> IF s.calibration_len > 0
                                    THEN <<s.calibration_sum, 100 * s.calibration_len>>
                                    ELSE NoFigure,
         true_positives |-> tp,
         true_negatives |-> s.true_negatives,
         false_positives |-> fp,
         false_negatives |-> fn,
         precision |-> precision,
         recall |-> recall,
         f1_score |-> IF FigureTruthy(precision) /\ FigureTruthy(recall)
                      THEN FracDiv(FracMul(<<2, 1>>, FracMul(precision, recall)),
                                   FracAdd(precision, recall))
                      ELSE NoFigure]

(***************************************************************************)
(* Specification SpecLev: calls of levenshtein_distance on bounded strings *)
(***************************************************************************)
\* The record of a generator call, before any call
NoCall == [op |-> "none", parent |-> <<>>, violation |-> None, num |-> 0,
           flag |-> FALSE, items |-> <<>>, raised |-> FALSE, oracle |-> <<>>,
           ratio |-> 0, targets |-> <<>>]

\* The variables of the other specifications, at rest
LevIdle ==
    /\ levA = <<>>
    /\ levB = <<>>
    /\ levOut = 0
    /\ levDone = FALSE

GenIdle ==
    /\ contributions = <<>>
    /\ file = <<>>
    /\ generated = FALSE
    /\ ret = NoCall

ValIdle ==
    /\ batch = <<>>
    /\ calls = <<>>
    /\ records = <<>>
    /\ results = <<>>
    /\ latest = <<>>
    /\ dataset = <<>>
    /\ exported = <<>>
    /\ workflow = NoWorkflowResult
    /\ stats = NoStatistics
    /\ test_results = <<>>
    /\ experiment = NoExperiment
    /\ phase = [stage |-> "start", op |-> "none"]

\* no score method has been called
NoMetricInput == [output |-> [keys |-> {}], expected_output |-> [keys |-> {}],
                  metadata |-> [keys |-> {}]]

NoMetricScores == [charter_accuracy |-> NoFigure, violation_detection |-> NoFigure,
                   confidence_calibration |-> NoFigure]

MetIdle ==
    /\ metric_input = NoMetricInput
    /\ metric_scores = NoMetricScores

\* an empty database
EmptyRedis == [validation |-> {}, index |-> {}, latest |-> <<>>]

\* no MockupStorage call yet
NoStoreCall == [seq |-> 0, op |-> "none", date |-> None, records |-> <<>>, limit |-> 0,
                failed |-> FALSE, ok |-> FALSE, count |-> 0, found |-> <<>>,
                before |-> EmptyRedis]

\* DatasetManager(): no dataset is tracked
NoDatasets == [names |-> {}, training |-> <<>>, validation |-> <<>>, test |-> <<>>]

\* no create_train_val_test_split call yet
NoSplitCall == [seq |-> 0, op |-> "none", items |-> <<>>, train |-> 0, val |-> 0, test |-> 0,
                created |-> {}, before |-> NoDatasets, raised |-> FALSE,
                training |-> 0, validation |-> 0, tests |-> 0]

\* no seeded call yet
NoRandCall == [op |-> "none", text |-> <<>>, target |-> 0, kind |-> "none",
               intensity |-> <<0, 1>>, seed |-> <<>>, first |-> <<>>, second |-> <<>>,
               rng2 |-> 0]

\* no apply_distance call under way
NoLoop == [pc |-> "idle", text |-> <<>>, target |-> 0, kind |-> "none", chars |-> <<>>,
           applied |-> 0]

RandIdle ==
    /\ rng = 1
    /\ rand_ret = NoRandCall
    /\ loop = NoLoop

StoreIdle ==
    /\ redis = EmptyRedis
    /\ clock = 1
    /\ store_ret = NoStoreCall
    /\ procs = <<>>
    /\ datasets = NoDatasets
    /\ split_ret = NoSplitCall

LevInit ==
    /\ GenIdle
    /\ ValIdle
    /\ MetIdle
    /\ RandIdle
    /\ StoreIdle
    /\ levA \in LevStrings
    /\ levB \in LevStrings
    /\ levOut = 0
    /\ levDone = FALSE

LevCall ==
    /\ ~levDone
    /\ levOut' = levenshtein_distance(levA, levB)
    /\ levDone' = TRUE
    /\ UNCHANGED <<levA, levB, genVars, valVars, metVars, storeVars, randVars>>

LevNewInput ==
    /\ levDone
    /\ levA' \in LevStrings
    /\ levB' \in LevStrings
    /\ levOut' = 0
    /\ levDone' = FALSE
    /\ UNCHANGED <<genVars, valVars, metVars, storeVars, randVars>>

LevNext == LevCall \/ LevNewInput

SpecLev == LevInit /\ [][LevNext]_vars

\* C1: the returned distance is the minimum number of single-character
\* insertions, deletions and substitutions turning s1 into s2; it is
\* symmetric, zero on equal strings and len(s) against the empty string.
C1_DistanceIsMinimalEdits ==
    levDone =>
        /\ levOut = MinEdits(levA, levB)
        /\ levOut = levenshtein_distance(levB, levA)
        /\ (levA = levB => levOut = 0)
        /\ (levA = <<>> => levOut = Len(levB))

\* C1 witness: a call on two different non-empty strings of different length
\* that share a character has returned.
C1_Witness ==
    /\ levDone
    /\ levA = <<"a", "b">>
    /\ levB = <<"b", "a", "b">>
    /\ levOut = 1

(***************************************************************************)
(* Specification SpecGen: one ContributionGenerator and contributions.json *)
(***************************************************************************)
MaxSeeds == 1

MaxVariations == 5

MaxLlmVariations == 7

\* The base contributions the callers add
SeedInputs ==
    {[constat |-> <<"a", ".", " ", "b">>, idees |-> <<"c", "e">>, category |-> "cat",
      expected_valid |-> "True"],
     [constat |-> <<"a", "b">>, idees |-> <<>>, category |-> None,
      expected_valid |-> None],
     [constat |-> <<"B", "a">>, idees |-> <<"e", "!", " ", "c">>, category |-> "cat",
      expected_valid |-> "False"]}

\* The direct calls of derive_contribution the callers make
DeriveInputs ==
    {[target |-> 0, mutation_type |-> "mixed", violation |-> None, intensity |-> <<5, 10>>],
     [target |-> 4, mutation_type |-> "mixed", violation |-> "aggressive",
      intensity |-> <<5, 10>>],
     [target |-> 2, mutation_type |-> "substitute", violation |-> "off_topic",
      intensity |-> <<9, 10>>],
     [target |-> 2, mutation_type |-> "insert", violation |-> "not_in_catalog",
      intensity |-> <<1, 10>>]}

\* max_distance_ratio, in hundredths
RatioPcts == {10, 30}

\* The states the random generator is in when a call starts
RngSeeds == {1, 7}

\* The failures of the rewriting capability during one series: the fields in
\* `fields` fail at one step, at every step, or at none.
LlmOracles(num_variations) ==
    {[k \in 1..num_variations |-> IF k \in steps THEN fields ELSE {}] :
        steps \in {{j} : j \in 1..num_variations} \cup {1..num_variations},
        fields \in SUBSET {"constat", "idees"}}

GenInit ==
    /\ LevIdle
    /\ ValIdle
    /\ MetIdle
    /\ RandIdle
    /\ StoreIdle
    /\ contributions = <<>>
    /\ file = <<>>
    /\ generated = FALSE
    /\ ret = NoCall

Parents == {k \in 1..Len(contributions) : contributions[k].source # "derived"}

Seeds == Parents

GenAdd ==
    /\ ~generated
    /\ Cardinality(Seeds) < MaxSeeds
    /\ \E s \in SeedInputs :
        LET c == add_contribution(s.constat, s.idees, s.category, s.expected_valid, "mock")
        IN  /\ contributions' = Append(contributions, c)
            /\ ret' = [NoCall EXCEPT !.op = "add", !.items = <<c>>]
    /\ UNCHANGED <<file, generated, levVars, valVars, metVars, storeVars, randVars>>

GenDerive ==
    /\ ~generated
    /\ \E p \in Parents, a \in DeriveInputs, r \in RngSeeds :
        \E d \in {derive_contribution(contributions[p], a.target, a.mutation_type,
                                       a.violation, a.intensity, r)} :
            /\ d.returned
            /\ contributions' = Append(contributions, d.item)
            /\ ret' = [NoCall EXCEPT !.op = "derive", !.parent = contributions[p],
                                     !.violation = a.violation, !.items = <<d.item>>,
                                     !.raised = d.raised]
    /\ generated' = TRUE
    /\ UNCHANGED <<file, levVars, valVars, metVars, storeVars, randVars>>

GenSeries ==
    /\ ~generated
    /\ \E p \in Parents, n \in 1..MaxVariations, pct \in RatioPcts,
          progressive \in BOOLEAN, r \in RngSeeds :
        \E g \in {generate_variation_series(contributions[p], n, pct, progressive, r)} :
            /\ g.returned
            /\ contributions' = contributions \o g.items
            /\ ret' = [NoCall EXCEPT !.op = "series", !.parent = contributions[p],
                                     !.num = n, !.flag = progressive,
                                     !.ratio = pct,
                                     !.targets = [k \in 1..n |->
                                         TargetDistance(
                                             MaxDistance(contributions[p], pct),
                                             k - 1, n)],
                                     !.items = g.items]
    /\ generated' = TRUE
    /\ UNCHANGED <<file, levVars, valVars, metVars, storeVars, randVars>>

GenLlmSeries ==
    /\ ~generated
    /\ \E p \in Parents, n \in 1..MaxLlmVariations, include \in BOOLEAN :
        \E oracle \in LlmOracles(n) :
            \E items \in {generate_llm_variation_series(contributions[p], n, include,
                                                          oracle)} :
                /\ contributions' = contributions \o items
                /\ ret' = [NoCall EXCEPT !.op = "llm", !.parent = contributions[p],
                                         !.num = n, !.flag = include, !.items = items,
                                         !.oracle = oracle]
    /\ generated' = TRUE
    /\ UNCHANGED <<file, levVars, valVars, metVars, storeVars, randVars>>

GenSaveToJson ==
    /\ contributions # <<>>
    /\ file' = save_to_json(file, contributions)
    /\ ret' = [NoCall EXCEPT !.op = "save"]
    /\ UNCHANGED <<contributions, generated, levVars, valVars, metVars, storeVars, randVars>>

GenNext == GenAdd \/ GenDerive \/ GenSeries \/ GenLlmSeries \/ GenSaveToJson

SpecGen == GenInit /\ [][GenNext]_vars
\* C2: a derive_contribution call whose violation tag is not in the catalog
\* ends in an error: it returns no item that carries an injected violation
\* or expected_valid = false for a text into which nothing was injected.
C2_UnknownViolationFailsLoudly ==
    (/\ ret.op = "derive"
     /\ ret.violation # None
     /\ ret.violation \notin DOMAIN VIOLATION_PATTERNS)
    => /\ ret.raised
       /\ \A k \in 1..Len(ret.items) :
            /\ ret.items[k].violations_injected = <<>>
            /\ ret.items[k].expected_valid = ret.parent.expected_valid

\* C3: generate_variation_series(parent, N, progressive_violations = True)
\* returns N items, and item i carries an injected violation exactly when
\* i/N > 0.4; a violating item has expected_valid = false, any other item
\* the parent's expected_valid.
C3_SeriesViolationsFromProgress ==
    (ret.op = "series" /\ ret.flag) =>
        /\ Len(ret.items) = ret.num
        /\ \A i \in 1..Len(ret.items) :
            LET item == ret.items[i]
            IN  /\ (item.violations_injected # <<>>) <=> (5 * i > 2 * ret.num)
                /\ item.violations_injected # <<>> => item.expected_valid = "False"
                /\ item.violations_injected = <<>> =>
                       item.expected_valid = ret.parent.expected_valid
                /\ item.parent_id = ret.parent.id

\* C3 witness: a series of five with progressive violations from a parent
\* expected valid: the second item (progress 0.4) is clean, the third is not.
C3_Witness ==
    /\ ret.op = "series"
    /\ ret.flag
    /\ ret.num = 5
    /\ Len(ret.items) = 5
    /\ ret.parent.expected_valid = "True"
    /\ ret.items[2].violations_injected = <<>>
    /\ ret.items[2].expected_valid = "True"
    /\ ret.items[3].violations_injected # <<>>
    /\ ret.items[5].expected_valid = "False"

\* C4: every derived item of the collection has distance_from_parent equal
\* to the edit distance between the full text of the item its parent_id
\* names and its own full text, as they are after all mutations and
\* injections.
C4_DistanceMatchesParent ==
    \A k \in 1..Len(contributions) :
        contributions[k].source = "derived" =>
            /\ \E j \in 1..Len(contributions) :
                   contributions[j].id = contributions[k].parent_id
            /\ \A j \in 1..Len(contributions) :
                   contributions[j].id = contributions[k].parent_id =>
                       contributions[k].distance_from_parent =
                           levenshtein_distance(full_text(contributions[j]),
                                                full_text(contributions[k]))

\* C4 witness: the collection holds an item derived with an injected
\* violation whose text differs from its parent's.
C4_Witness ==
    \E k \in 1..Len(contributions) :
        /\ contributions[k].source = "derived"
        /\ contributions[k].violations_injected = <<"aggressive">>
        /\ contributions[k].distance_from_parent > 4

\* C5: no two items of the collection, nor of the saved file, have the same
\* id.
C5_IdsAreUnique ==
    /\ \A i, j \in 1..Len(contributions) :
           i # j => contributions[i].id # contributions[j].id
    /\ \A i, j \in 1..Len(file) : i # j => file[i].id # file[j].id

(***************************************************************************)
(* Specification SpecVal: one batch goes through a validation run, the     *)
(* store's statistics and an experiment                                    *)
(***************************************************************************)
MaxBatch == 2

\* The contributions of the batches: one expected valid, one derived from it
\* with an injected violation, one of unknown ground truth
CleanItem == add_contribution(<<"a", "b">>, <<"c">>, "cat", "True", "mock")

ViolatingItem ==
    MockContribution(<<"a", "b">>, <<"!", "!", "!", ".", " ", "c">>, "cat", "derived",
                     CleanItem.id,
                     levenshtein_distance(full_text(CleanItem),
                                          FullText(<<"a", "b">>,
                                                   <<"!", "!", "!", ".", " ", "c">>)),
                     "False", <<"aggressive">>, None)

UnknownItem == add_contribution(<<"B", "a">>, <<>>, None, None, "framaforms")

ValItems == {CleanItem, ViolatingItem, UnknownItem}

\* What a call of the validation function may do
ClassifierOutcomes ==
    {Raises, Verdict("True", <<>>, 90), Verdict("False", <<"aggressive">>, 80),
     ErrorDict}

\* inside an experiment a call that raises ends the evaluation
ExperimentOutcomes == ClassifierOutcomes \ {Raises}

Batches == UNION {[1..n -> ValItems] : n \in 1..MaxBatch}

ValInit ==
    /\ LevIdle
    /\ GenIdle
    /\ MetIdle
    /\ RandIdle
    /\ StoreIdle
    /\ batch \in Batches
    /\ calls = <<>>
    /\ records = <<>>
    /\ results = <<>>
    /\ latest = <<>>
    /\ dataset = <<>>
    /\ exported = <<>>
    /\ workflow = NoWorkflowResult
    /\ stats = NoStatistics
    /\ test_results = <<>>
    /\ experiment = NoExperiment
    /\ phase = [stage |-> "start", op |-> "none"]

\* run_workflow with a validate_func, save_to_redis and create_dataset:
\* steps 3 to 5
RunWorkflow ==
    /\ phase.stage = "start"
    /\ \E outcomes \in [1..Len(batch) -> ClassifierOutcomes] :
        \E validation_results \in {run_validation(batch, outcomes)} :
            /\ calls' = outcomes
            /\ records' = validation_results
            /\ workflow' = WorkflowResult(validation_results)
            /\ latest' = save_batch(latest, validation_results)
            /\ dataset' = export_to_dataset(validation_results)
            /\ exported' = validation_results
    /\ phase' = [stage |-> "validated", op |-> "workflow"]
    /\ UNCHANGED <<batch, results, stats, test_results, experiment, levVars, genVars, metVars, storeVars, randVars>>

\* run_workflow without validate_func: the records are saved unvalidated
RunWorkflowUnvalidated ==
    /\ phase.stage = "start"
    /\ \E recs \in {contributions_to_records(batch)} :
        /\ records' = recs
        /\ latest' = save_batch(latest, recs)
    /\ phase' = [stage |-> "validated", op |-> "unvalidated"]
    /\ UNCHANGED <<batch, calls, results, dataset, exported, workflow, stats,
                   test_results, experiment, levVars, genVars, metVars, storeVars, randVars>>

\* batch_view._run_batch_validation with save_to_redis
RunBatchValidation ==
    /\ phase.stage = "start"
    /\ \E outcomes \in [1..Len(batch) -> ClassifierOutcomes] :
        \E b \in {run_batch_validation(batch, outcomes)} :
            /\ calls' = outcomes
            /\ results' = b.results
            /\ records' = b.records_to_save
            /\ latest' = IF b.records_to_save # <<>>
                         THEN save_batch(latest, b.records_to_save) ELSE latest
    /\ phase' = [stage |-> "validated", op |-> "batch"]
    /\ UNCHANGED <<batch, dataset, exported, workflow, stats, test_results,
                   experiment, levVars, genVars, metVars, storeVars, randVars>>

\* MockupProcessor.get_statistics()
GetStatistics ==
    /\ phase.stage = "validated"
    /\ stats' = get_statistics(latest)
    /\ phase' = [phase EXCEPT !.stage = "counted"]
    /\ UNCHANGED <<batch, calls, records, results, latest, dataset, exported,
                   workflow, test_results, experiment, levVars, genVars, metVars, storeVars, randVars>>

\* run_experiment on the dataset the workflow exported
RunExperiment ==
    /\ phase.stage = "counted"
    /\ phase.op = "workflow"
    /\ \E outcomes \in [1..Len(dataset) -> ExperimentOutcomes] :
        \E tr \in {[k \in 1..Len(dataset) |-> evaluation_task(dataset[k], outcomes[k])]} :
            /\ test_results' = tr
            /\ experiment' = calculate_experiment_scores(tr)
    /\ phase' = [phase EXCEPT !.stage = "scored"]
    /\ UNCHANGED <<batch, calls, records, results, latest, dataset, exported,
                   workflow, stats, levVars, genVars, metVars, storeVars, randVars>>

\* run_daily_experiment: the dataset is rebuilt from the store, then evaluated
RunDailyExperiment ==
    /\ phase.stage = "counted"
    /\ \E items \in {export_to_dataset(latest)} :
        /\ dataset' = items
        /\ exported' = latest
        /\ IF items = <<>>
           THEN /\ test_results' = <<>>
                /\ experiment' = NoExperiment
           ELSE \E outcomes \in [1..Len(items) -> ExperimentOutcomes] :
                   \E tr \in {[k \in 1..Len(items) |->
                                  evaluation_task(items[k], outcomes[k])]} :
                       /\ test_results' = tr
                       /\ experiment' = calculate_experiment_scores(tr)
    /\ phase' = [phase EXCEPT !.stage = "scored"]
    /\ UNCHANGED <<batch, calls, records, results, latest, workflow, stats,
                   levVars, genVars, metVars, storeVars, randVars>>

ValNext ==
    \/ RunWorkflow
    \/ RunWorkflowUnvalidated
    \/ RunBatchValidation
    \/ GetStatistics
    \/ RunExperiment
    \/ RunDailyExperiment

SpecVal == ValInit /\ [][ValNext]_vars

\* C6: every item of the dataset has expected_output.is_valid equal to the
\* expected_valid (the ground truth) of the record it was made from, and
\* the record's texts as its input.
C6_ExportCarriesGroundTruth ==
    \A k \in 1..Len(dataset) :
        /\ dataset[k].expected_output.is_valid = exported[k].expected_valid
        /\ dataset[k].input.title = exported[k].title
        /\ dataset[k].input.body = exported[k].body
        /\ dataset[k].input.constat_factuel = exported[k].constat_factuel
        /\ dataset[k].input.idees_ameliorations = exported[k].idees_ameliorations

\* the positions of `flags` that are TRUE, in order, from position i on
RECURSIVE KeptFrom(_, _)
KeptFrom(flags, i) ==
    IF i > Len(flags) THEN <<>>
    ELSE (IF flags[i] THEN <<i>> ELSE <<>>) \o KeptFrom(flags, i + 1)

\* whether the records are, one for one and in order, those of the items at
\* the positions `kept` of the batch
RecordsAreOf(kept) ==
    /\ Len(records) = Len(kept)
    /\ \A k \in 1..Len(kept) :
        /\ records[k].id = batch[kept[k]].id
        /\ records[k].expected_valid = batch[kept[k]].expected_valid
        /\ records[k].violations_injected = batch[kept[k]].violations_injected

Returned(id, verdict) ==
    \E i \in 1..Len(calls) :
        /\ batch[i].id = id
        /\ ~calls[i].raises
        /\ "is_valid" \in calls[i].keys
        /\ calls[i].is_valid = verdict

\* C8: the is_valid of every record produced or stored is a verdict the
\* classifier returned for that item.
C8_VerdictsComeFromClassifier ==
    /\ \A k \in 1..Len(records) : Returned(records[k].id, records[k].is_valid)
    /\ \A k \in 1..Len(latest) : Returned(latest[k].id, latest[k].is_valid)

\* matches over known: the items of `seq` whose verdict is their known
\* ground truth, over the items whose ground truth is known
KnownAccuracy(seq, Verdict_(_), GroundTruth(_)) ==
    LET known == {k \in 1..Len(seq) : GroundTruth(seq[k]) # None}
        matching == {k \in known : Verdict_(seq[k]) = GroundTruth(seq[k])}
    IN  IF known = {} THEN NoFigure ELSE <<Cardinality(matching), Cardinality(known)>>

RecordVerdict(r) == r.is_valid

RecordGroundTruth(r) == r.expected_valid

TestVerdict(t) == t.output.is_valid

TestGroundTruth(t) == t.metadata.expected_valid

\* C9: the accuracy of the workflow result, of the store's statistics and of
\* the experiment is matches over known, None when nothing is known.
C9_AccuracyOverKnownGroundTruth ==
    /\ phase.op = "workflow" =>
           SameFigure(workflow.accuracy,
                      KnownAccuracy(records, RecordVerdict, RecordGroundTruth))
    /\ phase.stage \in {"counted", "scored"} =>
           SameFigure(stats.accuracy,
                      KnownAccuracy(latest, RecordVerdict, RecordGroundTruth))
    /\ phase.stage = "scored" =>
           SameFigure(experiment.charter_accuracy,
                      KnownAccuracy(test_results, TestVerdict, TestGroundTruth))

(***************************************************************************)
(* Specification SpecScore: _calculate_experiment_scores on the test       *)
(* results of an experiment                                                *)
(***************************************************************************)
MaxCell == 3

\* a test result whose dataset item expects `expected_valid` and on which the
\* classifier answered `actual_valid`
TestResult(expected_valid, actual_valid) ==
    LET item == IF expected_valid = "True" THEN CleanItem ELSE ViolatingItem
        record == RecordOfResult(item, Verdict(expected_valid, <<>>, 90))
        answer == IF actual_valid = "True" THEN Verdict("True", <<>>, 90)
                  ELSE Verdict("False", <<"aggressive">>, 80)
    IN  evaluation_task(to_opik_item(record), answer)

\* a test result whose expected_output has no is_valid, judged invalid
BareTestResult ==
    LET t == TestResult("True", "False")
    IN  [t EXCEPT !.expected_output.keys = {"violations", "confidence"}]

Repeat(x, n) == [k \in 1..n |-> x]

ScoreInit ==
    /\ LevIdle
    /\ GenIdle
    /\ MetIdle
    /\ RandIdle
    /\ StoreIdle
    /\ batch = <<>>
    /\ calls = <<>>
    /\ records = <<>>
    /\ results = <<>>
    /\ latest = <<>>
    /\ dataset = <<>>
    /\ exported = <<>>
    /\ workflow = NoWorkflowResult
    /\ stats = NoStatistics
    /\ \E tp, fn, tn, fp \in 0..MaxCell, bare \in 0..1 :
        test_results = Repeat(TestResult("False", "False"), tp)
                       \o Repeat(TestResult("False", "True"), fn)
                       \o Repeat(TestResult("True", "True"), tn)
                       \o Repeat(TestResult("True", "False"), fp)
                       \o Repeat(BareTestResult, bare)
    /\ experiment = NoExperiment
    /\ phase = [stage |-> "start", op |-> "none"]

ScoreResults ==
    /\ phase.stage = "start"
    /\ experiment' = calculate_experiment_scores(test_results)
    /\ phase' = [stage |-> "scored", op |-> "score"]
    /\ UNCHANGED <<batch, calls, records, results, latest, dataset, exported,
                   workflow, stats, test_results, levVars, genVars, metVars, storeVars, randVars>>

ScoreNext == ScoreResults

SpecScore == ScoreInit /\ [][ScoreNext]_vars

\* the test results expected valid or not and judged valid or not; an
\* expected_output without is_valid counts as expected valid
CellCount(expected_invalid, judged_invalid) ==
    Cardinality({k \in 1..Len(test_results) :
        /\ expected_invalid <=>
               ("is_valid" \in test_results[k].expected_output.keys
                /\ test_results[k].expected_output.is_valid # "True")
        /\ judged_invalid <=> (test_results[k].output.is_valid # "True")})

\* C10: the scorer counts every test result in exactly one cell, with the
\* expected-invalid items as the positive class; recall is TP/(TP+FN) and
\* precision TP/(TP+FP); 3 TP, 1 FN, 2 TN and 0 FP give recall 3/4 and
\* precision 1.
C10_ConfusionMatrix ==
    phase.stage = "scored" =>
        LET tp == experiment.true_positives
            fn == experiment.false_negatives
            tn == experiment.true_negatives
            fp == experiment.false_positives
        IN  /\ tp = CellCount(TRUE, TRUE)
            /\ fn = CellCount(TRUE, FALSE)
            /\ tn = CellCount(FALSE, FALSE)
            /\ fp = CellCount(FALSE, TRUE)
            /\ tp + fn + tn + fp = Len(test_results)
            /\ tp + fn > 0 => SameFigure(experiment.recall, <<tp, tp + fn>>)
            /\ tp + fp > 0 => SameFigure(experiment.precision, <<tp, tp + fp>>)
            /\ (tp = 3 /\ fn = 1 /\ tn = 2 /\ fp = 0) =>
                   /\ SameFigure(experiment.recall, <<3, 4>>)
                   /\ SameFigure(experiment.precision, <<1, 1>>)

\* C10 witness: six test results, 3 TP, 1 FN, 2 TN and 0 FP, have been scored
C10_Witness ==
    /\ phase.stage = "scored"
    /\ Len(test_results) = 6
    /\ experiment.true_positives = 3
    /\ experiment.false_negatives = 1
    /\ experiment.true_negatives = 2
    /\ experiment.false_positives = 0
    /\ experiment.recall = <<3, 4>>
    /\ experiment.precision = <<3, 3>>

\* C11: precision is None exactly when TP+FP = 0, recall exactly when
\* TP+FN = 0, F1 exactly when precision or recall is None or their sum is
\* zero, and is 2PR/(P+R) otherwise; without test results every aggregate is
\* None.
C11_UndefinedIsNone ==
    phase.stage = "scored" /\ phase.op = "score" =>
        LET tp == CellCount(TRUE, TRUE)
            fn == CellCount(TRUE, FALSE)
            fp == CellCount(FALSE, TRUE)
            P == experiment.precision
            R == experiment.recall
            f1 == experiment.f1_score
            sumIsZero == ~IsNoFigure(P) /\ ~IsNoFigure(R) /\ P[1] = 0 /\ R[1] = 0
        IN  /\ IsNoFigure(P) <=> (tp + fp = 0)
            /\ IsNoFigure(R) <=> (tp + fn = 0)
            /\ IsNoFigure(f1) <=> (IsNoFigure(P) \/ IsNoFigure(R) \/ sumIsZero)
            /\ ~IsNoFigure(f1) => SameFigure(f1, <<2 * tp, 2 * tp + fp + fn>>)
            /\ test_results = <<>> =>
                   /\ IsNoFigure(experiment.charter_accuracy)
                   /\ IsNoFigure(experiment.violation_detection)
                   /\ IsNoFigure(experiment.confidence_calibration)
                   /\ IsNoFigure(P) /\ IsNoFigure(R) /\ IsNoFigure(f1)

\* C11 witness: test results with false positives and no true positive have
\* been scored: precision is 0, recall and F1 are None.
C11_Witness ==
    /\ phase.stage = "scored"
    /\ phase.op = "score"
    /\ experiment.true_positives = 0
    /\ experiment.false_negatives = 0
    /\ experiment.false_positives = 2
    /\ experiment.precision = <<0, 2>>
    /\ IsNoFigure(experiment.recall)
    /\ IsNoFigure(experiment.f1_score)

(***************************************************************************)
(* mockup_processor.py: the three metrics; a score is a fraction           *)
(***************************************************************************)
\* CharterAccuracyMetric.score
CharterAccuracyScore(output, expected_output) ==
    IF DictGet(output, "is_valid", "True") = DictGet(expected_output, "is_valid", "True")
    THEN <<1, 1>> ELSE <<0, 1>>

\* ViolationDetectionMetric.score
ViolationDetectionScore(output, metadata) ==
    LET violations_injected == DictGet(metadata, "violations_injected", <<>>)
        violations_found == DictGet(output, "violations", <<>>)
    IN  IF violations_injected = <<>>
        THEN (IF violations_found = <<>> THEN <<1, 1>> ELSE <<1, 2>>)
        ELSE IF violations_found = <<>> /\ ~Truthy(DictGet(output, "is_valid", "True"))
             THEN <<1, 2>>
             ELSE IF violations_found # <<>> THEN <<1, 1>> ELSE <<0, 1>>

\* ConfidenceCalibrationMetric.score, confidences in hundredths
ConfidenceCalibrationScore(output, expected_output) ==
    LET confidence == DictGet(output, "confidence", 50)
    IN  IF DictGet(output, "is_valid", "True")
               = DictGet(expected_output, "is_valid", "True")
        THEN <<confidence, 100>> ELSE <<100 - confidence, 100>>

(***************************************************************************)
(* Specification SpecMetric: the score methods on one task result          *)
(***************************************************************************)
\* The task results: any key may be missing from a dict
MetricInputs ==
    {[output |-> [keys |-> ko, is_valid |-> v, violations |-> f, confidence |-> c],
      expected_output |-> [keys |-> ke, is_valid |-> e],
      metadata |-> [keys |-> km, violations_injected |-> i]] :
        ko \in SUBSET {"is_valid", "violations", "confidence"},
        v \in {"True", "False"},
        f \in {<<>>, <<"aggressive">>},
        c \in {0, 90},
        ke \in SUBSET {"is_valid"},
        e \in {"True", "False"},
        km \in SUBSET {"violations_injected"},
        i \in {<<>>, <<"aggressive">>}}

MetInit ==
    /\ LevIdle
    /\ GenIdle
    /\ ValIdle
    /\ StoreIdle
    /\ RandIdle
    /\ metric_input \in MetricInputs
    /\ metric_scores = NoMetricScores

ScoreMetrics ==
    /\ metric_scores = NoMetricScores
    /\ metric_scores' =
        [charter_accuracy |->
             CharterAccuracyScore(metric_input.output, metric_input.expected_output),
         violation_detection |->
             ViolationDetectionScore(metric_input.output, metric_input.metadata),
         confidence_calibration |->
             ConfidenceCalibrationScore(metric_input.output,
                                        metric_input.expected_output)]
    /\ UNCHANGED <<metric_input, levVars, genVars, valVars, storeVars, randVars>>

\* _calculate_experiment_scores on the test results of the same item
ScoreExperiment ==
    /\ metric_scores # NoMetricScores
    /\ phase.stage = "start"
    /\ test_results' = <<metric_input>>
    /\ experiment' = calculate_experiment_scores(<<metric_input>>)
    /\ phase' = [stage |-> "scored", op |-> "score"]
    /\ UNCHANGED <<batch, calls, records, results, latest, dataset, exported, workflow,
                   stats, metVars, levVars, genVars, storeVars, randVars>>

MetNext ==
    \/ ScoreMetrics
    \/ ScoreExperiment

SpecMetric == MetInit /\ [][MetNext]_vars

\* C12: the violation-detection score of an item with injected violations
\* is 1 only if the classifier listed a violation and marked the item
\* invalid; an item without injected violations scores 1 when no violation
\* is listed; 1/2 is given only to an item marked invalid with no violation
\* listed.
C12_ViolationDetectionScore ==
    metric_scores # NoMetricScores =>
        LET injected == DictGet(metric_input.metadata, "violations_injected", <<>>)
            found == DictGet(metric_input.output, "violations", <<>>)
            invalid == DictGet(metric_input.output, "is_valid", "True") = "False"
            score == metric_scores.violation_detection
        IN  /\ (injected # <<>> /\ SameFigure(score, <<1, 1>>)) =>
                   (found # <<>> /\ invalid)
            /\ (injected = <<>> /\ found = <<>>) => SameFigure(score, <<1, 1>>)
            /\ SameFigure(score, <<1, 2>>) => (invalid /\ found = <<>>)

(***************************************************************************)
(* storage.py: MockupStorage over Redis.  The database is a record of the  *)
(* validation keys (a set of records, one per key), the date indexes (a    *)
(* set of scored members) and the latest hash (its fields in the order     *)
(* they were first set).  Timestamps are clock ticks.                      *)
(***************************************************************************)
\* A ValidationRecord of the given id and date, created at time t
StoreRecord(id, d, t) ==
    LET r == RecordOfResult(CleanItem, Verdict("True", <<>>, 90))
    IN  [k \in DOMAIN r \cup {"timestamp"} |->
            CASE k = "id" -> id
              [] k = "date" -> d
              [] k = "timestamp" -> t
              [] OTHER -> r[k]]

\* MockupKeys.validation(contribution_id, date_str)
ValidationKey(id, d) == <<d, id>>

\* r.setex(key, ttl, json): the value under the key is replaced
SetEx(db, record) ==
    [db EXCEPT !.validation =
        {x \in @ : ValidationKey(x.id, x.date) # ValidationKey(record.id, record.date)}
            \cup {record}]

\* r.zadd(index_key, {record.id: timestamp}): the member's score is replaced
ZAdd(db, record) ==
    [db EXCEPT !.index =
        {e \in @ : ~(e.date = record.date /\ e.id = record.id)}
            \cup {[date |-> record.date, id |-> record.id, score |-> record.timestamp]}]

\* r.hset(MockupKeys.LATEST, record.id, json)
HSetLatest(db, record) == [db EXCEPT !.latest = HSet(@, record)]

\* r.get(key)
Get(db, id, d) == {x \in db.validation : x.id = id /\ x.date = d}

\* the members of the index of a date
IndexMembers(db, d) == {e \in db.index : e.date = d}

\* sorted(records, key=timestamp, reverse=True), a stable sort
RECURSIVE SortedByTimestamp(_, _)
SortedByTimestamp(seq, todo) ==
    IF todo = {} THEN <<>>
    ELSE LET k == CHOOSE i \in todo :
                    \A j \in todo : \/ seq[i].timestamp > seq[j].timestamp
                                    \/ (seq[i].timestamp = seq[j].timestamp /\ i <= j)
         IN  <<seq[k]>> \o SortedByTimestamp(seq, todo \ {k})

\* r.zrange(index_key, 0, -1): the ids by ascending score, ties by id
RECURSIVE ZRange(_)
ZRange(members) ==
    IF members = {} THEN <<>>
    ELSE LET m == CHOOSE e \in members :
                    \A f \in members : e.score <= f.score
         IN  <<m.id>> \o ZRange(members \ {m})

\* The orders in which HGETALL may list the fields of the hash
HashOrders(hash) ==
    {[k \in 1..Len(hash) |-> hash[perm[k]]] :
        perm \in {f \in [1..Len(hash) -> 1..Len(hash)] :
                     \A i, j \in 1..Len(hash) : f[i] = f[j] => i = j}}

\* get_validation: the record in a list of one, the empty list for None
get_validation(db, id, d) ==
    IF Get(db, id, d) = {} THEN <<>> ELSE <<CHOOSE x \in Get(db, id, d) : TRUE>>

\* get_validations_by_date: the ids of the index, then each record that exists
RECURSIVE FetchEach(_, _, _)
FetchEach(db, ids, d) ==
    IF ids = <<>> THEN <<>>
    ELSE (IF Get(db, Head(ids), d) = {} THEN <<>>
          ELSE <<CHOOSE x \in Get(db, Head(ids), d) : TRUE>>)
         \o FetchEach(db, Tail(ids), d)

get_validations_by_date(db, d) == FetchEach(db, ZRange(IndexMembers(db, d)), d)

\* save_validation with the backend answering throughout, or down
save_validation(db, record, up) ==
    IF up THEN HSetLatest(ZAdd(SetEx(db, record), record), record) ELSE db

\* pipe.execute() of save_batch: every queued command, in order, in one transaction
RECURSIVE SaveExecute(_, _)
SaveExecute(db, recs) ==
    IF recs = <<>> THEN db
    ELSE SaveExecute(save_validation(db, Head(recs), TRUE), Tail(recs))

\* save_batch: the database afterwards and the returned count
save_batch_records(db, recs, up) ==
    IF up THEN [db |-> SaveExecute(db, recs), saved |-> Len(recs)]
    ELSE [db |-> db, saved |-> 0]

\* the ids of a list
IdSet(ids) == {ids[k] : k \in 1..Len(ids)}

\* pipe.execute() of clear_date that leaves the index key in place
ClearExecuteKeepIndex(db, ids, d) ==
    [validation |-> {x \in db.validation : ~(x.date = d /\ x.id \in IdSet(ids))},
     index |-> db.index,
     latest |-> SelectSeq(db.latest, LAMBDA x : x.id \notin IdSet(ids))]

\* pipe.execute() of clear_date: delete each key, hdel each id, delete the index
ClearExecute(db, ids, d) ==
    [validation |-> {x \in db.validation : ~(x.date = d /\ x.id \in IdSet(ids))},
     index |-> {e \in db.index : e.date # d},
     latest |-> SelectSeq(db.latest, LAMBDA x : x.id \notin IdSet(ids))]

\* clear_date: the database afterwards and the returned count
clear_date(db, d, up) ==
    IF up
    THEN LET ids == ZRange(IndexMembers(db, d))
         IN  [db |-> ClearExecute(db, ids, d), deleted |-> Len(ids)]
    ELSE [db |-> db, deleted |-> 0]

\* get_latest_validations: hgetall lists the hash in the order `listed`,
\* or the backend is down and the empty list is returned
get_latest_validations(listed, limit, up) ==
    IF ~up THEN <<>>
    ELSE LET taken == SubSeq(listed, 1, IF limit < Len(listed) THEN limit ELSE Len(listed))
         IN  SortedByTimestamp(taken, 1..Len(taken))

\* the limit export_to_opik_format passes
ExportLimit == 1000

\* export_to_opik_format(date_str=None): no filter
export_to_opik_format(listed, up) ==
    export_to_dataset(get_latest_validations(listed, ExportLimit, up))

(***************************************************************************)
(* dataset.py: DatasetManager                                              *)
(***************************************************************************)
DATASET_TRAINING == "training"
DATASET_VALIDATION == "validation"
DATASET_TEST == "test"

\* create_charter_dataset: the list is reset unless Opik refused the dataset
create_charter_dataset(ds, name, created) ==
    IF created
    THEN [ds EXCEPT !.names = @ \cup {name}, ![name] = <<>>]
    ELSE ds

\* add_items
add_items(ds, name, items) ==
    [ds EXCEPT !.names = @ \cup {name}, ![name] = @ \o items]

\* int(n * ratio), the ratio in hundredths
RatioCount(n, pct) == (n * pct) \div 100

\* val_end without the offset of the training slice
ValEndFromZero(n, train_end, val_pct) == RatioCount(n, val_pct)

\* val_end = train_end + int(n * val_ratio)
ValEnd(n, train_end, val_pct) == train_end + RatioCount(n, val_pct)

\* items[lo:hi], Python slice bounds counted from 0
Slice(items, lo, hi) ==
    LET n == Len(items)
        l == IF lo > n THEN n ELSE lo
        h == IF hi > n THEN n ELSE hi
    IN  IF h <= l THEN <<>> ELSE SubSeq(items, l + 1, h)

\* create_train_val_test_split: the datasets afterwards and the returned counts
create_train_val_test_split(ds, items, train_pct, val_pct, test_pct, created) ==
    IF items = <<>>
    THEN [datasets |-> ds, training |-> 0, validation |-> 0, test |-> 0]
    ELSE
        LET n == Len(items)
            train_end == RatioCount(n, train_pct)
            val_end == ValEnd(n, train_end, val_pct)
            ds1 == create_charter_dataset(ds, DATASET_TRAINING, DATASET_TRAINING \in created)
            ds2 == create_charter_dataset(ds1, DATASET_VALIDATION, DATASET_VALIDATION \in created)
            ds3 == create_charter_dataset(ds2, DATASET_TEST, DATASET_TEST \in created)
            train_items == Slice(items, 0, train_end)
            val_items == Slice(items, train_end, val_end)
            test_items == Slice(items, val_end, n)
            ds4 == add_items(ds3, DATASET_TRAINING, train_items)
            ds5 == add_items(ds4, DATASET_VALIDATION, val_items)
            ds6 == add_items(ds5, DATASET_TEST, test_items)
        IN  [datasets |-> ds6, training |-> Len(train_items),
             validation |-> Len(val_items), test |-> Len(test_items)]

(***************************************************************************)
(* The split: a database holding up to MaxSplitItems records in its latest *)
(* hash, and up to MaxSplitCalls calls of create_train_val_test_split with *)
(* any ratios of SplitPcts, whether they sum to 1 or not.                  *)
(***************************************************************************)
MaxSplitItems == 4
MaxSplitCalls == 1

SplitPcts == {0, 20, 30, 50}

SplitIds == [k \in 1..(MaxSplitItems + 1) |-> Repeat("i", k)]

\* the database after save_batch of n records made one tick apart
RECURSIVE SplitStore(_)
SplitStore(n) ==
    IF n = 0 THEN EmptyRedis
    ELSE HSetLatest(ZAdd(SetEx(SplitStore(n - 1), StoreRecord(SplitIds[n], Today, n)),
                         StoreRecord(SplitIds[n], Today, n)),
                    StoreRecord(SplitIds[n], Today, n))

SplitInit ==
    /\ LevIdle
    /\ GenIdle
    /\ ValIdle
    /\ MetIdle
    /\ RandIdle
    /\ \E n \in 0..MaxSplitItems :
        /\ redis = SplitStore(n)
        /\ clock = n + 1
    /\ store_ret = NoStoreCall
    /\ procs = <<>>
    /\ datasets = NoDatasets
    /\ split_ret = NoSplitCall

\* The datasets create_charter_dataset resets: all three when Opik is disabled
\* or answers, none when Opik is enabled and fails
OpikOutcomes == {{DATASET_TRAINING, DATASET_VALIDATION, DATASET_TEST}, {}}

\* One call; `up` is whether the backend answered.  The export asks for more
\* records than the hash holds and sorts them, so the order in which the hash
\* lists its fields does not show.
CreateSplit ==
    /\ split_ret.seq < MaxSplitCalls
    /\ \E train_pct \in SplitPcts, val_pct \in SplitPcts, test_pct \in SplitPcts,
          created \in OpikOutcomes, up \in BOOLEAN :
        \E items \in {export_to_opik_format(redis.latest, up)} :
        \E out \in {create_train_val_test_split(datasets, items, train_pct, val_pct,
                                                test_pct, created)} :
            /\ datasets' = out.datasets
            /\ split_ret' = [seq |-> split_ret.seq + 1, op |-> "split", items |-> items,
                             train |-> train_pct, val |-> val_pct, test |-> test_pct,
                             created |-> created, before |-> datasets, raised |-> FALSE,
                             training |-> out.training, validation |-> out.validation,
                             tests |-> out.test]
    /\ UNCHANGED <<redis, clock, store_ret, procs, levVars, genVars, valVars, metVars, randVars>>

SplitNext == CreateSplit

SpecSplit == SplitInit /\ [][SplitNext]_vars

\* C13: for n exported records and ratios in [0,1] summing to 1 the returned
\* sizes are floor(n*train), floor(n*val) and the remainder; the datasets are
\* contiguous slices of the exported list whose concatenation is that list;
\* with nothing exported the three counts are 0 and nothing is raised.
C13_SplitIsContiguous ==
    (split_ret.op = "split" /\ split_ret.train + split_ret.val + split_ret.test = 100) =>
        LET items == split_ret.items
            n == Len(items)
            a == (n * split_ret.train) \div 100
            b == (n * split_ret.val) \div 100
            whole == split_ret.created = {DATASET_TRAINING, DATASET_VALIDATION, DATASET_TEST}
        IN  /\ ~split_ret.raised
            /\ split_ret.training = a
            /\ split_ret.validation = b
            /\ split_ret.tests = n - a - b
            /\ split_ret.training + split_ret.validation + split_ret.tests = n
            /\ (n > 0 /\ whole) =>
                  /\ datasets.training = SubSeq(items, 1, a)
                  /\ datasets.validation = SubSeq(items, a + 1, a + b)
                  /\ datasets.test = SubSeq(items, a + b + 1, n)
                  /\ datasets.training \o datasets.validation \o datasets.test = items
            /\ n = 0 => (datasets = split_ret.before /\ split_ret.training = 0
                         /\ split_ret.validation = 0 /\ split_ret.tests = 0)

\* a split of three records in which each slice is cut inside the list
C13_Witness ==
    /\ split_ret.op = "split"
    /\ split_ret.train = 30 /\ split_ret.val = 50 /\ split_ret.test = 20
    /\ Len(split_ret.items) = 4
    /\ split_ret.training = 1 /\ split_ret.validation = 2 /\ split_ret.tests = 1
    /\ datasets.validation = SubSeq(split_ret.items, 2, 3)

\* C14: a call whose ratios do not sum to 1 reports an input error and
\* creates or changes no dataset.
C14_BadRatiosAreRejected ==
    (split_ret.op = "split" /\ split_ret.train + split_ret.val + split_ret.test # 100) =>
        /\ split_ret.raised
        /\ datasets = split_ret.before

(***************************************************************************)
(* The store, call by call: up to MaxStoreCalls writing calls over up to   *)
(* MaxStoreRecords records of StoreIds and StoreDates, each made at the    *)
(* time of its call, with the backend answering or down for the whole      *)
(* call, and reads in between.                                             *)
(***************************************************************************)
MaxStoreCalls == 2
MaxStoreRecords == 3
MaxStoreLimit == 2

StoreIds == {"a", "b"}
StoreDates == {Today, "yesterday"}

StoreKeys == StoreIds \X StoreDates

\* the records of a batch, made one tick apart
BatchRecords(keys, t) == [k \in 1..Len(keys) |-> StoreRecord(keys[k][1], keys[k][2], t + k - 1)]

StoreBatches == UNION {[1..n -> StoreKeys] : n \in 0..MaxStoreRecords}

StoreInit ==
    /\ LevIdle
    /\ GenIdle
    /\ ValIdle
    /\ MetIdle
    /\ RandIdle
    /\ redis = EmptyRedis
    /\ clock = 1
    /\ store_ret = NoStoreCall
    /\ procs = <<>>
    /\ datasets = NoDatasets
    /\ split_ret = NoSplitCall

StoreSaveValidation ==
    /\ store_ret.seq < MaxStoreCalls
    /\ clock <= MaxStoreRecords
    /\ \E key \in StoreKeys, up \in BOOLEAN :
        LET record == StoreRecord(key[1], key[2], clock)
        IN  /\ redis' = save_validation(redis, record, up)
            /\ clock' = clock + 1
            /\ store_ret' = [NoStoreCall EXCEPT !.seq = store_ret.seq + 1,
                                !.op = "save_validation", !.records = <<record>>,
                                !.failed = ~up, !.ok = up, !.before = redis]
    /\ UNCHANGED <<procs, datasets, split_ret, levVars, genVars, valVars, metVars, randVars>>

StoreSaveBatch ==
    /\ store_ret.seq < MaxStoreCalls
    /\ \E keys \in StoreBatches, up \in BOOLEAN :
        /\ clock + Len(keys) <= MaxStoreRecords + 1
        /\ \E out \in {save_batch_records(redis, BatchRecords(keys, clock), up)} :
               /\ redis' = out.db
               /\ clock' = clock + Len(keys)
               /\ store_ret' = [NoStoreCall EXCEPT !.seq = store_ret.seq + 1,
                                   !.op = "save_batch", !.records = BatchRecords(keys, clock),
                                   !.failed = ~up, !.count = out.saved, !.before = redis]
    /\ UNCHANGED <<procs, datasets, split_ret, levVars, genVars, valVars, metVars, randVars>>

StoreClearDate ==
    /\ store_ret.seq < MaxStoreCalls
    /\ \E d \in StoreDates, up \in BOOLEAN :
        \E out \in {clear_date(redis, d, up)} :
            /\ redis' = out.db
            /\ store_ret' = [NoStoreCall EXCEPT !.seq = store_ret.seq + 1,
                                !.op = "clear_date", !.date = d,
                                !.failed = ~up, !.count = out.deleted, !.before = redis]
    /\ UNCHANGED <<clock, procs, datasets, split_ret, levVars, genVars, valVars, metVars, randVars>>

StoreGetLatest ==
    /\ \E limit \in 1..MaxStoreLimit, listed \in HashOrders(redis.latest), up \in BOOLEAN :
        store_ret' = [NoStoreCall EXCEPT !.seq = store_ret.seq,
                         !.op = "get_latest_validations", !.limit = limit,
                         !.failed = ~up, !.before = redis,
                         !.found = get_latest_validations(listed, limit, up)]
    /\ UNCHANGED <<redis, clock, procs, datasets, split_ret, levVars, genVars, valVars,
                   metVars, randVars>>

StoreNext ==
    \/ StoreSaveValidation
    \/ StoreSaveBatch
    \/ StoreClearDate
    \/ StoreGetLatest

SpecStore == StoreInit /\ [][StoreNext]_vars

\* the records stored under a date
StoredUnder(db, d) == {x \in db.validation : x.date = d}

Retrievable(db, recs) ==
    {k \in 1..Len(recs) :
        /\ get_validation(db, recs[k].id, recs[k].date) = <<recs[k]>>
        /\ \E e \in IndexMembers(db, recs[k].date) : e.id = recs[k].id}

\* C16: the count save_batch returns is the number of its records that are
\* persisted and retrievable afterwards, also when the backend fails and when
\* two records of the batch share one (date, id).
C16_BatchCountIsStored ==
    store_ret.op = "save_batch" =>
        store_ret.count = Cardinality(Retrievable(redis, store_ret.records))

\* the distinct records the saves so far have left in the store
RECURSIVE GreatestFirst(_)
GreatestFirst(recs) ==
    IF recs = {} THEN <<>>
    ELSE LET top == CHOOSE x \in recs : \A y \in recs : x.timestamp >= y.timestamp
         IN  <<top>> \o GreatestFirst(recs \ {top})

\* C17: get_latest_validations(limit) returns min(limit, number of stored
\* records) records, those with the greatest timestamps among all stored
\* records whatever their date, most recent first.
C17_LatestAreMostRecent ==
    (store_ret.op = "get_latest_validations" /\ ~store_ret.failed) =>
        LET stored == GreatestFirst(redis.validation)
            n == IF store_ret.limit < Len(stored) THEN store_ret.limit ELSE Len(stored)
        IN  store_ret.found = SubSeq(stored, 1, n)

\* C18: a save under a (date, id) that already holds a record leaves what
\* get_validation returns for it as it was.
C18_WritesNeverOverwrite ==
    store_ret.op \in {"save_validation", "save_batch"} =>
        \A key \in StoreKeys :
            get_validation(store_ret.before, key[1], key[2]) # <<>> =>
                get_validation(redis, key[1], key[2])
                    = get_validation(store_ret.before, key[1], key[2])

(***************************************************************************)
(* The store, command by command: MaxProcs callers, each running one call  *)
(* of save_validation, save_batch or clear_date on the date Today.  Every  *)
(* step is one backend command; a pipeline is queued locally and runs as   *)
(* one transaction when it is executed.  Between two commands a caller may *)
(* be killed, and any command may raise, which ends the call in its        *)
(* except branch.                                                          *)
(***************************************************************************)
MaxProcs == 2
MaxStepBatch == 2

Procs == 1..MaxProcs

IdleProc == [op |-> "none", pc |-> "idle", records |-> <<>>, date |-> None, ids |-> <<>>,
             ok |-> FALSE, count |-> 0, failed |-> FALSE, returned |-> 0]

StepKeys == StoreIds \X {Today}

StepBatches == UNION {[1..n -> StepKeys] : n \in 0..MaxStepBatch}

\* the calls that have returned
Returned_(ps) == {q \in Procs : ps[q].pc = "done"}

\* a call returns: it is the next in the order of returns
Return(ps, p) == Cardinality(Returned_(ps)) + 1

\* the commands at which a call may stand
CommandPcs == {"setex", "zadd", "expire_index", "hset", "expire_latest",
               "save_execute", "zrange", "clear_execute"}

StepInit ==
    /\ LevIdle
    /\ GenIdle
    /\ ValIdle
    /\ MetIdle
    /\ RandIdle
    /\ redis = EmptyRedis
    /\ clock = 1
    /\ store_ret = NoStoreCall
    /\ procs = [p \in Procs |-> IdleProc]
    /\ datasets = NoDatasets
    /\ split_ret = NoSplitCall

\* save_validation(record) is called
BeginSaveValidation(p) ==
    /\ procs[p].pc = "idle"
    /\ \E key \in StepKeys :
        procs' = [procs EXCEPT ![p] = [IdleProc EXCEPT !.op = "save_validation",
                     !.pc = "setex", !.records = <<StoreRecord(key[1], key[2], clock)>>]]
    /\ clock' = clock + 1
    /\ UNCHANGED <<redis, store_ret, datasets, split_ret, levVars, genVars, valVars, metVars, randVars>>

\* save_batch(records) is called: the commands are queued up to pipe.execute()
BeginSaveBatch(p) ==
    /\ procs[p].pc = "idle"
    /\ \E keys \in StepBatches :
        /\ procs' = [procs EXCEPT ![p] = [IdleProc EXCEPT !.op = "save_batch",
                        !.pc = "save_execute", !.records = BatchRecords(keys, clock)]]
        /\ clock' = clock + Len(keys)
    /\ UNCHANGED <<redis, store_ret, datasets, split_ret, levVars, genVars, valVars, metVars, randVars>>

\* clear_date(date_str) is called
BeginClearDate(p) ==
    /\ procs[p].pc = "idle"
    /\ procs' = [procs EXCEPT ![p] = [IdleProc EXCEPT !.op = "clear_date",
                    !.pc = "zrange", !.date = Today]]
    /\ UNCHANGED <<redis, clock, store_ret, datasets, split_ret, levVars, genVars, valVars,
                   metVars, randVars>>

\* r.setex(key, ...)
SaveSetEx(p) ==
    /\ procs[p].pc = "setex"
    /\ redis' = SetEx(redis, procs[p].records[1])
    /\ procs' = [procs EXCEPT ![p].pc = "zadd"]
    /\ UNCHANGED <<clock, store_ret, datasets, split_ret, levVars, genVars, valVars, metVars, randVars>>

\* r.zadd(index_key, ...)
SaveZAdd(p) ==
    /\ procs[p].pc = "zadd"
    /\ redis' = ZAdd(redis, procs[p].records[1])
    /\ procs' = [procs EXCEPT ![p].pc = "expire_index"]
    /\ UNCHANGED <<clock, store_ret, datasets, split_ret, levVars, genVars, valVars, metVars, randVars>>

\* r.expire(index_key, ...): the keys do not expire in this model
SaveExpireIndex(p) ==
    /\ procs[p].pc = "expire_index"
    /\ procs' = [procs EXCEPT ![p].pc = "hset"]
    /\ UNCHANGED <<redis, clock, store_ret, datasets, split_ret, levVars, genVars, valVars,
                   metVars, randVars>>

\* r.hset(LATEST, ...)
SaveHSet(p) ==
    /\ procs[p].pc = "hset"
    /\ redis' = HSetLatest(redis, procs[p].records[1])
    /\ procs' = [procs EXCEPT ![p].pc = "expire_latest"]
    /\ UNCHANGED <<clock, store_ret, datasets, split_ret, levVars, genVars, valVars, metVars, randVars>>

\* r.expire(LATEST, ...), then return True
SaveExpireLatest(p) ==
    /\ procs[p].pc = "expire_latest"
    /\ procs' = [procs EXCEPT ![p].pc = "done", ![p].ok = TRUE,
                                ![p].returned = Return(procs, p)]
    /\ UNCHANGED <<redis, clock, store_ret, datasets, split_ret, levVars, genVars, valVars,
                   metVars, randVars>>

\* pipe.execute() of save_batch, then return len(records)
BatchExecute(p) ==
    /\ procs[p].pc = "save_execute"
    /\ redis' = SaveExecute(redis, procs[p].records)
    /\ procs' = [procs EXCEPT ![p].pc = "done", ![p].ok = TRUE,
                                ![p].count = Len(procs[p].records),
                                ![p].returned = Return(procs, p)]
    /\ UNCHANGED <<clock, store_ret, datasets, split_ret, levVars, genVars, valVars, metVars, randVars>>

\* ids = r.zrange(index_key, 0, -1)
ClearZRange(p) ==
    /\ procs[p].pc = "zrange"
    /\ procs' = [procs EXCEPT ![p].pc = "clear_execute",
                                ![p].ids = ZRange(IndexMembers(redis, procs[p].date))]
    /\ UNCHANGED <<redis, clock, store_ret, datasets, split_ret, levVars, genVars, valVars,
                   metVars, randVars>>

\* pipe.execute() of clear_date, then return len(ids)
ClearDateExecute(p) ==
    /\ procs[p].pc = "clear_execute"
    /\ redis' = ClearExecute(redis, procs[p].ids, procs[p].date)
    /\ procs' = [procs EXCEPT ![p].pc = "done", ![p].ok = TRUE,
                                ![p].count = Len(procs[p].ids),
                                ![p].returned = Return(procs, p)]
    /\ UNCHANGED <<clock, store_ret, datasets, split_ret, levVars, genVars, valVars, metVars, randVars>>

\* the command the call stands at raises: the except branch returns False or
\* the count so far, which is 0
CommandRaises(p) ==
    /\ procs[p].pc \in CommandPcs
    /\ procs' = [procs EXCEPT ![p].pc = "done", ![p].failed = TRUE,
                                ![p].returned = Return(procs, p)]
    /\ UNCHANGED <<redis, clock, store_ret, datasets, split_ret, levVars, genVars, valVars,
                   metVars, randVars>>

\* the caller is killed before its next command
Crash(p) ==
    /\ procs[p].pc \in CommandPcs
    /\ procs' = [procs EXCEPT ![p].pc = "crashed"]
    /\ UNCHANGED <<redis, clock, store_ret, datasets, split_ret, levVars, genVars, valVars,
                   metVars, randVars>>

StepNext ==
    \E p \in Procs :
        \/ BeginSaveValidation(p)
        \/ BeginSaveBatch(p)
        \/ BeginClearDate(p)
        \/ SaveSetEx(p)
        \/ SaveZAdd(p)
        \/ SaveExpireIndex(p)
        \/ SaveHSet(p)
        \/ SaveExpireLatest(p)
        \/ BatchExecute(p)
        \/ ClearZRange(p)
        \/ ClearDateExecute(p)
        \/ CommandRaises(p)
        \/ Crash(p)

SpecStoreSteps == StepInit /\ [][StepNext]_vars

\* no call stands between two of its commands
Quiescent == \A p \in Procs : procs[p].pc \in {"idle", "done", "crashed"}

\* an id is in the index of a date exactly when the record (date, id) exists
IndexMatchesRecords(db) ==
    \A id \in StoreIds, d \in StoreDates :
        (\E e \in IndexMembers(db, d) : e.id = id) <=> (Get(db, id, d) # {})

\* C19: whenever no call is under way, also after a caller was killed between
\* two commands of a call, the index of a date holds an id exactly when the
\* record exists.
C19_RecordAndIndexAreAUnit ==
    Quiescent => IndexMatchesRecords(redis)

\* C20: once concurrent calls on one date have all returned, none killed and
\* no command having raised, the index holds an id exactly when its record
\* exists, and each record whose save returned after every clear_date had
\* returned is listed by get_validations_by_date.
C20_InterleavingsKeepIndex ==
    (\A p \in Procs : procs[p].pc = "done" /\ ~procs[p].failed) =>
        /\ IndexMatchesRecords(redis)
        /\ \A p \in Procs :
            (/\ procs[p].op \in {"save_validation", "save_batch"}
             /\ \A q \in Procs : procs[q].op = "clear_date" =>
                                    procs[q].returned < procs[p].returned) =>
                \A k \in 1..Len(procs[p].records) :
                    \E j \in 1..Len(get_validations_by_date(redis, Today)) :
                        get_validations_by_date(redis, Today)[j].id = procs[p].records[k].id

(***************************************************************************)
(* levenshtein.py: the seed argument.  A seed is <<>> for None and <<n>>   *)
(* for the integer n; random.seed(n) puts the module-level generator in a  *)
(* state that depends on n alone.                                          *)
(***************************************************************************)
\* random.seed(seed)
SeedState(n) == (n % (RngModulus - 1)) + 1

\* if seed is not None: random.seed(seed)
Seeded(seed, r) == IF seed = <<>> THEN r ELSE SeedState(seed[1])

\* apply_distance that leaves the generator as it finds it
apply_distance_unseeded(text, target_distance, mutation_type, seed, r) ==
    apply_distance(text, target_distance, mutation_type, r)

\* apply_distance(text, target_distance, mutation_type, seed)
apply_distance_seeded(text, target_distance, mutation_type, seed, r) ==
    apply_distance(text, target_distance, mutation_type, Seeded(seed, r))

\* inject_violation(text, violation_type, intensity, seed)
inject_violation_seeded(text, violation_type, intensity, seed, r) ==
    inject_violation(text, violation_type, intensity, Seeded(seed, r))

(***************************************************************************)
(* The random module in use: the generator starts in any state, other      *)
(* callers draw from it at any time, and apply_distance or                 *)
(* inject_violation is called, with or without a seed, and then called     *)
(* again with the same arguments.                                          *)
(***************************************************************************)
MaxTarget == 2
MaxSeed == 1

RandTexts == {<<>>, <<"a">>, <<"B", "a", ".", " ", "c">>,
              <<"a", "b", "?", " ", " ", "c", "e", ".", " ", "b", "a", "!">>}

RandSeeds == {<<>>} \cup {<<n>> : n \in 0..MaxSeed}

RandKinds == {"insert", "delete", "substitute", "mixed"}

RandViolations == {"personal_attack", "aggressive", "spam"}

RandIntensities == {<<1, 10>>, <<3, 10>>, <<5, 10>>, <<7, 10>>, <<9, 10>>}

RandInit ==
    /\ LevIdle
    /\ GenIdle
    /\ ValIdle
    /\ MetIdle
    /\ StoreIdle
    /\ rng \in RngStates
    /\ rand_ret = NoRandCall
    /\ loop = NoLoop

\* some other caller draws a random number
OtherRandomCall ==
    /\ rand_ret.second = <<>>
    /\ rng' = NextRng(rng)
    /\ UNCHANGED <<rand_ret, loop, levVars, genVars, valVars, metVars, storeVars>>

CallApplyDistance ==
    /\ rand_ret.op = "none"
    /\ \E text \in RandTexts, target \in (-1)..MaxTarget, kind \in RandKinds,
          seed \in RandSeeds :
        \E out \in {apply_distance_seeded(text, target, kind, seed, rng)} :
            /\ out.returned
            /\ rng' = out.rng
            /\ rand_ret' = [NoRandCall EXCEPT !.op = "apply_distance", !.text = text,
                               !.target = target, !.kind = kind, !.seed = seed,
                               !.first = <<[text |-> out.text, distance |-> out.distance]>>]
    /\ UNCHANGED <<loop, levVars, genVars, valVars, metVars, storeVars>>

CallInjectViolation ==
    /\ rand_ret.op = "none"
    /\ \E text \in RandTexts, kind \in RandViolations, intensity \in RandIntensities,
          seed \in RandSeeds :
        \E out \in {inject_violation_seeded(text, kind, intensity, seed, rng)} :
            /\ rng' = out.rng
            /\ rand_ret' = [NoRandCall EXCEPT !.op = "inject_violation", !.text = text,
                               !.kind = kind, !.intensity = intensity, !.seed = seed,
                               !.first = <<[text |-> out.text, tag |-> out.tag]>>]
    /\ UNCHANGED <<loop, levVars, genVars, valVars, metVars, storeVars>>

\* the same call once more
CallAgain ==
    /\ rand_ret.op # "none"
    /\ rand_ret.second = <<>>
    /\ \/ /\ rand_ret.op = "apply_distance"
          /\ \E out \in {apply_distance_seeded(rand_ret.text, rand_ret.target,
                                               rand_ret.kind, rand_ret.seed, rng)} :
                /\ out.returned
                /\ rng' = out.rng
                /\ rand_ret' = [rand_ret EXCEPT !.rng2 = rng,
                                   !.second = <<[text |-> out.text,
                                                 distance |-> out.distance]>>]
       \/ /\ rand_ret.op = "inject_violation"
          /\ \E out \in {inject_violation_seeded(rand_ret.text, rand_ret.kind,
                                                 rand_ret.intensity, rand_ret.seed, rng)} :
                /\ rng' = out.rng
                /\ rand_ret' = [rand_ret EXCEPT !.rng2 = rng,
                                   !.second = <<[text |-> out.text, tag |-> out.tag]>>]
    /\ UNCHANGED <<loop, levVars, genVars, valVars, metVars, storeVars>>

RandNext ==
    \/ OtherRandomCall
    \/ CallApplyDistance
    \/ CallInjectViolation
    \/ CallAgain

SpecRandom == RandInit /\ [][RandNext]_vars

\* C21: two calls of apply_distance or inject_violation with the same seed and
\* the same other arguments return the same result, whatever the generator's
\* state before each of them.
C21_SeedDeterminism ==
    (rand_ret.seed # <<>> /\ rand_ret.second # <<>>) => rand_ret.first = rand_ret.second

\* a seeded apply_distance that changed the text, called again with the
\* generator in another state than the one the seed gives
C21_Witness ==
    /\ rand_ret.op = "apply_distance"
    /\ rand_ret.seed # <<>>
    /\ rand_ret.kind = "mixed"
    /\ rand_ret.second # <<>>
    /\ rand_ret.rng2 # SeedState(rand_ret.seed[1])
    /\ rand_ret.first[1].text # rand_ret.text

\* C22: the distance apply_distance returns is the Levenshtein distance from
\* the original to the mutated text and is at most twice the target; for a
\* target of 0 or less the text comes back unchanged with distance 0.
C22_DistanceWithinTwiceTarget ==
    rand_ret.op = "apply_distance" =>
        \A k \in 1..Len(rand_ret.first) :
            LET out == rand_ret.first[k]
            IN  /\ out.distance = levenshtein_distance(rand_ret.text, out.text)
                /\ rand_ret.target > 0 => out.distance <= 2 * rand_ret.target
                /\ rand_ret.target <= 0 => (out.text = rand_ret.text /\ out.distance = 0)

\* a call whose edits moved the text by the full 2 x target
C22_Witness ==
    /\ rand_ret.op = "apply_distance"
    /\ rand_ret.target > 0
    /\ rand_ret.first[1].distance = 2 * rand_ret.target

\* the sentences with the phrase as a new sentence at index k, counted from 0
PlacedAt(sentences, phrase, k) ==
    JoinSpace(SubSeq(sentences, 1, k) \o <<phrase>> \o SubSeq(sentences, k + 1, Len(sentences)))

\* the phrases of a category
PhrasesOf(kind) == {VIOLATION_PATTERNS[kind][k] : k \in 1..Len(VIOLATION_PATTERNS[kind])}

\* C23: for a known category inject_violation returns the requested tag and
\* the original sentences in their order plus one phrase of the category:
\* after the whole text below 0.3, at sentence index len(sentences)//2 from
\* 0.3 and below 0.7, before the first sentence from 0.7.
C23_PhrasePlacement ==
    (rand_ret.op = "inject_violation" /\ rand_ret.kind \in DOMAIN VIOLATION_PATTERNS) =>
        \A k \in 1..Len(rand_ret.first) :
            LET out == rand_ret.first[k]
                sentences == SplitSentences(rand_ret.text)
                low == rand_ret.intensity[1] * 10 < 3 * rand_ret.intensity[2]
                high == rand_ret.intensity[1] * 10 >= 7 * rand_ret.intensity[2]
            IN  /\ out.tag = rand_ret.kind
                /\ \E phrase \in PhrasesOf(rand_ret.kind) :
                      out.text =
                          IF low THEN rand_ret.text \o <<" ">> \o phrase \o <<".">>
                          ELSE IF high
                          THEN phrase \o <<".", " ">> \o JoinSpace(sentences)
                          ELSE PlacedAt(sentences, phrase, Len(sentences) \div 2)

\* a phrase placed between the first and the second of three sentences
C23_Witness ==
    /\ rand_ret.op = "inject_violation"
    /\ rand_ret.kind = "aggressive"
    /\ rand_ret.intensity = <<3, 10>>
    /\ Len(SplitSentences(rand_ret.text)) = 3
    /\ SplitSentences(rand_ret.text)[1] = <<"a", "b", "?">>
    /\ \E phrase \in PhrasesOf("aggressive") :
          rand_ret.first[1].text =
              <<"a", "b", "?", " ">> \o phrase \o <<" ", "c", "e", ".", " ", "b", "a", "!">>

(***************************************************************************)
(* The LLM variation series under failures of the rewriting capability     *)
(***************************************************************************)
\* the steps of the last series at which a rewrite failed
FailedSteps == {k \in 1..Len(ret.oracle) : ret.oracle[k] # {}}

\* C24: whichever rewrites fail, mutate hands back the original text with
\* success = false and an error, and the series has exactly N items, the
\* item of step i made with the type at position i mod len(sequence).
C24_SeriesSurvivesFailures ==
    ret.op = "llm" =>
        LET seq == mutation_sequence(ret.flag)
        IN  /\ ~ret.raised
            /\ Len(ret.items) = ret.num
            /\ \A k \in 1..Len(ret.items) :
                  /\ ret.items[k].mutation_type = seq[((k - 1) % Len(seq)) + 1]
                  /\ LET failed == mutate(ret.parent.constat_factuel,
                                          ret.items[k].mutation_type, TRUE)
                     IN  /\ failed.mutated = ret.parent.constat_factuel
                         /\ ~failed.success
                         /\ failed.error # None
                  /\ "constat" \in ret.oracle[k] =>
                        ret.items[k].constat_factuel = ret.parent.constat_factuel
                  /\ "idees" \in ret.oracle[k] =>
                        ret.items[k].idees_ameliorations = ret.parent.idees_ameliorations

\* seven steps over the six types, some rewrites failed and some not: the
\* seventh step is a paraphrase again
C24_Witness ==
    /\ ret.op = "llm"
    /\ ret.flag
    /\ ret.num = 7
    /\ Len(ret.items) = 7
    /\ FailedSteps # {}
    /\ FailedSteps # 1..7
    /\ ret.items[7].mutation_type = "paraphrase"
    /\ ret.items[6].mutation_type = "off_topic"

\* C30: an item whose rewrite failed, so that its text is the parent's text,
\* carries no injected-violation label that differs from the parent's
\* ground truth.
C30_LabelOnlyAfterRewrite ==
    ret.op = "llm" =>
        \A k \in 1..Len(ret.items) :
            (/\ ret.oracle[k] # {}
             /\ ret.items[k].constat_factuel = ret.parent.constat_factuel
             /\ ret.items[k].idees_ameliorations = ret.parent.idees_ameliorations) =>
                ~(/\ ret.items[k].violations_injected # <<>>
                  /\ ret.items[k].expected_valid = "False"
                  /\ ret.items[k].expected_valid # ret.parent.expected_valid)


(***************************************************************************)
(* storage.py: the shape of a dataset item                                 *)
(***************************************************************************)
\* C25: the item made from a record r has exactly the keys input,
\* expected_output and metadata; its input carries r's constat_factuel and
\* idees_ameliorations, its expected_output r's is_valid and confidence,
\* its metadata r's id and source.
C25_OpikItemMirrorsRecord ==
    /\ Len(dataset) = Len(exported)
    /\ \A k \in 1..Len(dataset) :
        LET item == dataset[k]
            r == exported[k]
        IN  /\ DOMAIN item = {"input", "expected_output", "metadata"}
            /\ item.input.constat_factuel = r.constat_factuel
            /\ item.input.idees_ameliorations = r.idees_ameliorations
            /\ item.expected_output.is_valid = r.is_valid
            /\ item.expected_output.confidence = r.confidence
            /\ item.metadata.id = r.id
            /\ item.metadata.source = r.source

\* an exported record whose verdict differs from its ground truth
C25_Witness ==
    /\ dataset # <<>>
    /\ Len(dataset) = Len(exported)
    /\ \E k \in 1..Len(exported) :
        /\ exported[k].expected_valid # None
        /\ exported[k].is_valid # exported[k].expected_valid
        /\ dataset[k].expected_output.is_valid = exported[k].is_valid


(***************************************************************************)
(* levenshtein.py: the while loop of apply_distance, pass by pass          *)
(***************************************************************************)
MaxLoopTarget == 3

LoopTexts == RandTexts

LoopInit ==
    /\ LevIdle
    /\ GenIdle
    /\ ValIdle
    /\ MetIdle
    /\ StoreIdle
    /\ rng \in RngStates
    /\ rand_ret = NoRandCall
    /\ loop = NoLoop

\* the call with target_distance <= 0: return text, 0
ReturnUnchanged ==
    /\ loop.pc = "idle"
    /\ \E text \in LoopTexts, target \in -1..0, kind \in RandKinds :
        loop' = [pc |-> "returned", text |-> text, target |-> target, kind |-> kind,
                 chars |-> text, applied |-> 0]
    /\ UNCHANGED <<rng, rand_ret, levVars, genVars, valVars, metVars, storeVars>>

\* chars = list(text); mutations_applied = 0
EnterLoop ==
    /\ loop.pc = "idle"
    /\ \E text \in LoopTexts, target \in 1..MaxLoopTarget, kind \in RandKinds :
        loop' = [pc |-> "loop", text |-> text, target |-> target, kind |-> kind,
                 chars |-> text, applied |-> 0]
    /\ UNCHANGED <<rng, rand_ret, levVars, genVars, valVars, metVars, storeVars>>

\* one pass of the body while the condition holds
LoopPass ==
    /\ loop.pc = "loop"
    /\ loop.applied < loop.target
    /\ Len(loop.chars) > 0
    /\ \E st \in {MutationAttempt([chars |-> loop.chars, applied |-> loop.applied,
                                     rng |-> rng], loop.kind)} :
        /\ loop' = [loop EXCEPT !.chars = st.chars, !.applied = st.applied]
        /\ rng' = st.rng
    /\ UNCHANGED <<rand_ret, levVars, genVars, valVars, metVars, storeVars>>

\* the condition fails: result = "".join(chars); return
LoopReturn ==
    /\ loop.pc = "loop"
    /\ ~(loop.applied < loop.target /\ Len(loop.chars) > 0)
    /\ loop' = [loop EXCEPT !.pc = "returned"]
    /\ UNCHANGED <<rng, rand_ret, levVars, genVars, valVars, metVars, storeVars>>

LoopNext ==
    \/ ReturnUnchanged
    \/ EnterLoop
    \/ LoopPass
    \/ LoopReturn

SpecLoop == LoopInit /\ [][LoopNext]_vars

\* the interpreter keeps running a call that has begun
SpecLoopFair == SpecLoop /\ WF_vars(LoopPass) /\ WF_vars(LoopReturn)

\* C26: a call of apply_distance that entered its loop returns, and on return
\* it has applied exactly target edits unless the text is empty.
C26_ApplyDistanceReturns ==
    (loop.pc = "loop") ~>
        (loop.pc = "returned" /\ (loop.text # <<>> => loop.applied = loop.target))


(***************************************************************************)
(* generator.py: the targets of generate_variation_series                  *)
(***************************************************************************)
\* C27: step i of N is asked for floor(maxDistance * i / N) edits, where
\* maxDistance = floor(L * ratio) and L is the length of the text that
\* distance_from_parent is measured against; so no step is asked for more
\* than ratio * L edits.
C27_TargetsFollowTextLength ==
    ret.op = "series" =>
        LET L == Len(full_text(ret.parent))
            maxDistance == (L * ret.ratio) \div 100
        IN  \A k \in 1..ret.num :
                /\ ret.targets[k] = (maxDistance * k) \div ret.num
                /\ 100 * ret.targets[k] <= ret.ratio * L


(***************************************************************************)
(* storage.py: what clear_date leaves alone                                *)
(***************************************************************************)
\* the entries of the "latest" hash that were written under date d
LatestUnder(db, d) == {db.latest[k] : k \in {j \in 1..Len(db.latest) : db.latest[j].date = d}}

\* C28: clear_date(d) leaves what the queries return for any other date as
\* it was: get_validation(id, d2), get_validations_by_date(d2) and the
\* entries of get_latest_validations written under d2.
C28_ClearDateKeepsOtherDates ==
    store_ret.op = "clear_date" =>
        \A d2 \in StoreDates \ {store_ret.date} :
            /\ \A id \in StoreIds :
                    get_validation(redis, id, d2) = get_validation(store_ret.before, id, d2)
            /\ get_validations_by_date(redis, d2)
                    = get_validations_by_date(store_ret.before, d2)
            /\ LatestUnder(redis, d2) = LatestUnder(store_ret.before, d2)


(***************************************************************************)
(* mockup_processor.py: the metric and the aggregate on the same item      *)
(***************************************************************************)
\* C29: on every evaluated item ViolationDetectionMetric.score equals the
\* value _calculate_experiment_scores averages into violation_detection, and
\* the aggregate counts every item the metric scores.
C29_ViolationScoresAgree ==
    (metric_scores # NoMetricScores /\ phase.stage = "scored") =>
        /\ ~IsNoFigure(experiment.violation_detection)
        /\ SameFigure(experiment.violation_detection, metric_scores.violation_detection)

====
